---- MODULE Spec2Model ----
(***************************************************************************)
(* Canonical-Huffman decoding core (recp/huff).                            *)
(*                                                                         *)
(* The module models four parts of the repository as state machines:       *)
(*   Spec      the header-only LSB decoder of include/huff/lsb.h           *)
(*             (huff_init_lsb, huff_decode_lsb and the extended variants)  *)
(*   SpecC     the exported table builders and decoders of src/huff.c      *)
(*   SpecRead  the bit readers: huff_read and huff_read2 of src/huff.c,    *)
(*             the scalar and vector readers of include/huff/read.h        *)
(*   SpecRev   the bit reversals: huff_rev_bits of src/huff.c, huff_rev8   *)
(*             and huff_rev8full of include/huff/rev.h                     *)
(*                                                                         *)
(* C arrays are modelled as functions over their C index range, so that    *)
(* indices in the model are the indices of the source.  Integers keep the  *)
(* width of the C type they are stored in (U8, U16).                       *)
(***************************************************************************)
EXTENDS Integers, Sequences, FiniteSets, TLC

VARIABLES
  table,       \* the table object handed to the builders and decoders
  lengths,     \* the lengths argument of the last builder call (C index 0..n-1)
  symbols,     \* the symbols argument of the last builder call, or NULL
  extras,      \* the extras argument of the last builder call (extended tables)
  offset,      \* the offset argument of the last builder call (extended tables)
  n,           \* the n argument of the last builder call
  ret,         \* outcome of the last builder call: "none", "true", "crash"
  last,        \* the operation that produced this state
  bitstream,   \* bitstream argument of the last decode call
  bit_length,  \* bit_length argument of the last decode call
  sym,         \* value returned by the last decode call
  used,        \* *used written by the last decode call
  value,       \* *value written by the last huff_decode_lsb_extof call
  msg,         \* decode session: the symbols the caller encoded
  stream,      \* decode session: bits not yet consumed (first element = next bit)
  out,         \* decode session: the (sym, used) pairs returned so far
  builds,      \* number of builder calls made on the table object
  buf,         \* bit reader: the caller's byte buffer (C index 0..end-1)
  p,           \* bit reader: *p as an index into buf (end = length of buf)
  bit_offset,  \* bit reader: *bit_offset
  nbits,       \* bit reader: *nbits written (or the count returned) by the last read
  word,        \* bit reader: the returned bitstream_t, as its bits (bit 0 first)
  from,        \* bit reader: (p, bit_offset) before the last read call
  origin,      \* bit reader: the bit position the caller started at
  got,         \* bit reader: the valid bits returned so far, in order
  loaded,      \* bit reader: one past the last byte index the last read call
               \* loaded from (0 when it loaded no byte)
  rev_path,    \* bit reversal: the path of huff_rev_bits the build compiled
  rev_x,       \* bit reversal: the value the caller started with, as its bits
  rev_out,     \* bit reversal: the value returned by the last call, as its bits
  rev_hist     \* bit reversal: the calls made so far, in order

tableVars   == <<table, lengths, symbols, extras, offset, n, ret, builds>>
callVars    == <<bitstream, bit_length, sym, used, value>>
sessionVars == <<msg, stream, out>>
readVars    == <<buf, p, bit_offset, nbits, word, from, origin, got, loaded>>

revVars     == <<rev_path, rev_x, rev_out, rev_hist>>

vars == <<tableVars, callVars, sessionVars, readVars, revVars, last>>

-----------------------------------------------------------------------------
(* Program constants                                                        *)

HUFF_MAX_CODE_LENGTH == 16
HUFF_FAST_TABLE_BITS == 8
HUFF_FAST_TABLE_SIZE == 2^HUFF_FAST_TABLE_BITS
HUFF_MAX_CODES == 288

\* `return -1` from a function returning uint_fast16_t or unsigned: the word
\* with every bit set.  The return types are wider than the uint16_t symbols
\* and than any value base + extra bits, so the word is kept as the source
\* writes it and is different from every value a table can hold.
HUFF_FAIL == -1

\* a pointer argument: NULL, or an array
NULL == [null |-> TRUE, arr |-> <<>>]
Ptr(a) == [null |-> FALSE, arr |-> a]

-----------------------------------------------------------------------------
(* Fixed-width arithmetic                                                   *)

U8(x)  == ((x % 256) + 256) % 256
U16(x) == ((x % 65536) + 65536) % 65536
BitAt(x, k) == (x \div (2^k)) % 2

\* a & m and a | m on 8-bit operands
And8(a, m) ==
  LET bit(k) == IF BitAt(a, k) = 1 /\ BitAt(m, k) = 1 THEN 2^k ELSE 0
  IN  bit(0) + bit(1) + bit(2) + bit(3) + bit(4) + bit(5) + bit(6) + bit(7)
Or8(a, m) == a + m - And8(a, m)

-----------------------------------------------------------------------------
(* include/huff/rev.h, portable path                                        *)

Rev8Steps(b) ==
  LET b1 == U8(Or8(And8(b, 240) \div 16, U8(And8(b, 15) * 16)))
      b2 == U8(Or8(And8(b1, 204) \div 4, U8(And8(b1, 51) * 4)))
      b3 == U8(Or8(And8(b2, 170) \div 2, U8(And8(b2, 85) * 2)))
  IN  b3

Rev8Table == [b \in 0..255 |-> Rev8Steps(b)]

huff_rev8full(b) == Rev8Table[b]

\* variant: the low len bits are kept in their order
huff_rev8_keep(b, len) == b % (2^len)

huff_rev8(b, len) == Rev8Table[b] \div (2^(8 - len))

-----------------------------------------------------------------------------
(* huff_table_t and huff_table_ext_t (include/huff.h)                       *)

\* A table object before any builder ran: its storage holds whatever bytes
\* the caller's memory held, here the byte g repeated.
FreshTable(g) ==
  [ fast      |-> [i \in 0..(HUFF_FAST_TABLE_SIZE - 1) |->
                     [len |-> g, rev |-> g, sym |-> g * 257]],
    sentinels |-> [l \in 0..HUFF_MAX_CODE_LENGTH |-> g * 257],
    offsets   |-> [l \in 0..HUFF_MAX_CODE_LENGTH |-> g * 257],
    syms      |-> [k \in 0..(HUFF_MAX_CODES - 1) |-> g * 257] ]

\* huff_ext_t: {base:16, bits:8, mask:24}
Ext(base, bits, mask) == [base |-> base, bits |-> bits, mask |-> mask]

\* huff_table_ext_t before any builder ran (value and mask hold g in their low
\* byte; extras points nowhere)
FreshTableExt(g) ==
  [ fast      |-> [i \in 0..(HUFF_FAST_TABLE_SIZE - 1) |->
                     [len |-> g, rev |-> g, sym |-> g * 257,
                      value |-> g, mask |-> g, total |-> g]],
    sentinels |-> [l \in 0..HUFF_MAX_CODE_LENGTH |-> g * 257],
    offsets   |-> [l \in 0..HUFF_MAX_CODE_LENGTH |-> g * 257],
    syms      |-> [k \in 0..(HUFF_MAX_CODES - 1) |-> g * 257],
    extras    |-> <<>>,
    offset    |-> g ]

-----------------------------------------------------------------------------
(* huff_init_lsb (include/huff/lsb.h)                                       *)

\* lines 366-370: histogram of the lengths, then count[0] = 0
CountLengths(lens, cnt) ==
  [l \in 0..HUFF_MAX_CODE_LENGTH |->
     IF l = 0 THEN 0 ELSE Cardinality({i \in 0..(cnt - 1) : lens[i] = l})]

\* variant: the first code of a length is not shifted left
FirstCodeUnshifted(count) ==
  LET code[l \in 0..HUFF_MAX_CODE_LENGTH] ==
        IF l = 0 THEN 0 ELSE code[l - 1] + count[l - 1]
  IN  code

\* lines 372-380: first code and first syms[] index of every length
FirstCode(count) ==
  LET code[l \in 0..HUFF_MAX_CODE_LENGTH] ==
        IF l = 0 THEN 0 ELSE (code[l - 1] + count[l - 1]) * 2
  IN  code

\* variant: the range of a length starts after its own symbols
FirstSymIdxOwn(count) ==
  LET sym_idx[l \in 0..HUFF_MAX_CODE_LENGTH] ==
        IF l = 0 THEN 0 ELSE sym_idx[l - 1] + count[l]
  IN  sym_idx

FirstSymIdx(count) ==
  LET sym_idx[l \in 0..HUFF_MAX_CODE_LENGTH] ==
        IF l = 0 THEN 0 ELSE sym_idx[l - 1] + count[l - 1]
  IN  sym_idx

\* variant: the bound is one too large
SentinelOfNext(code, count, l) == U16(code[l] + count[l] + 1)

\* line 375: table->sentinels[l] = code[l] + count[l], stored in a uint16_t
SentinelOf(code, count, l) == U16(code[l] + count[l])

\* variant: the first code of the length is not subtracted
OffsetOfSymIdx(sym_idx, code, l) == U16(sym_idx[l])

\* line 376: table->offsets[l] = sym_idx[l] - code[l], stored in a uint16_t
OffsetOf(sym_idx, code, l) == U16(sym_idx[l] - code[l])

\* line 385: the symbol stored for input index i (the symbols array is unused)
SymbolOf(syms_arg, i) == i

\* which builder is running, with its extras and offset arguments
PlainMode == [kind |-> "plain", extras |-> <<>>, offset |-> 0]
ExtMode(ex) == [kind |-> "ext", extras |-> ex, offset |-> 0]
ExtofMode(ex, off) == [kind |-> "extof", extras |-> ex, offset |-> off]

\* (1U << ext.bits) - 1, defined for ext.bits below 32
MaskOf(bits) == 2^bits - 1

\* variant: the store sets sym and len only
FastStoreLenOnly(fe, s, l, i, mode) == [fe EXCEPT !.sym = s, !.len = U8(l)]

\* variant: the extra bits are left out of the entry's total length
FastStoreCodeLen(fe, s, l, i, mode) ==
  LET base == [fe EXCEPT !.sym = s, !.len = U8(l)] IN
  IF mode.kind = "plain" THEN base
  ELSE IF mode.kind = "ext" \/ i >= mode.offset
  THEN LET ext == mode.extras[i - mode.offset]
       IN  [base EXCEPT !.value = ext.base,
                        !.total = U8(l),
                        !.mask  = MaskOf(ext.bits)]
  ELSE [base EXCEPT !.value = 0, !.mask = 0, !.total = l]

\* the store into one fast entry: lines 396-397 (huff_init_lsb), 516-521
\* (huff_init_lsb_ext), 595-606 (huff_init_lsb_extof)
FastStore(fe, s, l, i, mode) ==
  LET base == [fe EXCEPT !.sym = s, !.len = U8(l)] IN
  IF mode.kind = "plain" THEN base
  ELSE IF mode.kind = "ext" \/ i >= mode.offset
  THEN LET ext == mode.extras[i - mode.offset]
       IN  [base EXCEPT !.value = ext.base,
                        !.total = U8(l + U8(ext.bits)),
                        !.mask  = MaskOf(ext.bits)]
  ELSE [base EXCEPT !.value = 0, !.mask = 0, !.total = l]

\* lines 383-402: one iteration of the fill loop.  st = [fast, syms, code, sym_idx]
FillStep(st, lens, syms_arg, mode, i) ==
  LET l == lens[i] IN
  IF l = 0 THEN st
  ELSE IF l > HUFF_MAX_CODE_LENGTH
  THEN st   \* sym_idx[l] is read outside the array: the store lands elsewhere
  ELSE
    LET s     == U16(SymbolOf(syms_arg, i))
        \* a store at or above HUFF_MAX_CODES lands outside syms[]
        syms1 == IF st.sym_idx[l] < HUFF_MAX_CODES
                 THEN [st.syms EXCEPT ![st.sym_idx[l]] = s]
                 ELSE st.syms
        idx1  == [st.sym_idx EXCEPT ![l] = @ + 1]
    IN
    IF l <= HUFF_FAST_TABLE_BITS
    THEN LET code8 == huff_rev8(U8(st.code[l]), l)
             \* index = (uint8_t)(code8 | (pad << l)), pad < 2^(8-l)
             hit(index) == index % (2^l) = code8
         IN  [ fast    |-> [index \in 0..(HUFF_FAST_TABLE_SIZE - 1) |->
                              IF hit(index)
                              THEN FastStore(st.fast[index], s, l, i, mode)
                              ELSE st.fast[index]],
               syms    |-> syms1,
               code    |-> [st.code EXCEPT ![l] = @ + 1],
               sym_idx |-> idx1 ]
    ELSE [st EXCEPT !.syms = syms1, !.sym_idx = idx1]

\* the iterations lo <= i < hi of the loop, in ascending order of i.  The range
\* is split in halves and the first half is compared before the second starts,
\* which keeps TLC's evaluation shallow for n near HUFF_MAX_CODES.
RECURSIVE FillLoop(_, _, _, _, _, _)
FillLoop(st, lens, syms_arg, mode, lo, hi) ==
  IF hi <= lo THEN st
  ELSE IF hi = lo + 1 THEN FillStep(st, lens, syms_arg, mode, lo)
  ELSE LET mid  == (lo + hi) \div 2
           left == FillLoop(st, lens, syms_arg, mode, lo, mid)
       IN  IF left.sym_idx[0] = 0 /\ left.fast # <<>> /\ left.syms # <<>>
           THEN FillLoop(left, lens, syms_arg, mode, mid, hi)
           ELSE left

\* variant: the reversed index is never stored
MissRevStale(fe, i) == fe

\* lines 404-409: only the entries left invalid get their reversed index
MissRev(fe, i) == IF fe.len = 0 THEN [fe EXCEPT !.rev = huff_rev8full(U8(i))] ELSE fe

\* The builder reads count[lengths[i]] and writes syms[sym_idx[l]++] without
\* any range check: a length above HUFF_MAX_CODE_LENGTH or more than
\* HUFF_MAX_CODES coded symbols writes outside the arrays.
NonZeroCount(lens, cnt) == Cardinality({i \in 0..(cnt - 1) : lens[i] # 0})

InitOutOfBounds(lens, cnt) ==
  \/ \E i \in 0..(cnt - 1) : lens[i] > HUFF_MAX_CODE_LENGTH
  \/ NonZeroCount(lens, cnt) > HUFF_MAX_CODES

\* variant: the fast table keeps the lengths it held
KeepFast(fast) == fast

\* lines 362-364: mark fast table as invalid
ClearFast(fast) ==
  [i \in 0..(HUFF_FAST_TABLE_SIZE - 1) |-> [fast[i] EXCEPT !.len = 0]]

\* what the three builders share: the table fields they all write
BuildCommon(t, lens, syms_arg, mode, cnt) ==
  LET count   == CountLengths(lens, cnt)
      code    == FirstCode(count)
      sym_idx == FirstSymIdx(count)
      cleared == ClearFast(t.fast)
      st      == FillLoop([fast |-> cleared, syms |-> t.syms,
                           code |-> code, sym_idx |-> sym_idx],
                          lens, syms_arg, mode, 0, cnt)
  IN  [ fast      |-> [i \in 0..(HUFF_FAST_TABLE_SIZE - 1) |-> MissRev(st.fast[i], i)],
        sentinels |-> [l \in 0..HUFF_MAX_CODE_LENGTH |->
                         IF l = 0 THEN t.sentinels[0] ELSE SentinelOf(code, count, l)],
        offsets   |-> [l \in 0..HUFF_MAX_CODE_LENGTH |->
                         IF l = 0 THEN t.offsets[0] ELSE OffsetOf(sym_idx, code, l)],
        syms      |-> st.syms ]

\* The table left by huff_init_lsb (the stores that fall inside the table).
huff_init_lsb(t, lens, syms_arg, cnt) ==
  BuildCommon(t, lens, syms_arg, PlainMode, cnt)

\* The table left by huff_init_lsb_ext (lines 463-536)
huff_init_lsb_ext(t, lens, syms_arg, ex, cnt) ==
  LET b == BuildCommon(t, lens, syms_arg, ExtMode(ex), cnt)
  IN  [ fast |-> b.fast, sentinels |-> b.sentinels, offsets |-> b.offsets,
        syms |-> b.syms, extras |-> ex, offset |-> 0 ]

\* The table left by huff_init_lsb_extof (lines 538-617)
huff_init_lsb_extof(t, lens, syms_arg, ex, off, cnt) ==
  LET b == BuildCommon(t, lens, syms_arg, ExtofMode(ex, off), cnt)
  IN  [ fast |-> b.fast, sentinels |-> b.sentinels, offsets |-> b.offsets,
        syms |-> b.syms, extras |-> ex, offset |-> off ]

-----------------------------------------------------------------------------
(* huff_decode_lsb (include/huff/lsb.h)                                     *)

\* syms[] has HUFF_MAX_CODES slots; a read at or above that returns whatever
\* lies behind the array (junk).
ReadSym(t, idx, junk) == IF idx < HUFF_MAX_CODES THEN t.syms[idx] ELSE junk

\* CHECK_LENGTH(l) for l = 9..16 (lines 260-279)
RECURSIVE CheckLength(_, _, _, _, _)
CheckLength(t, code, bits, l, junk) ==
  LET code1 == U16(code * 2 + (bits % 2)) IN
  IF code1 < t.sentinels[l]
  THEN [sym |-> ReadSym(t, U16(t.offsets[l] + code1), junk), used |-> l]
  ELSE IF l >= HUFF_MAX_CODE_LENGTH
       THEN [sym |-> HUFF_FAIL, used |-> 0]
       ELSE CheckLength(t, code1, bits \div 2, l + 1, junk)

\* what the slow loop of the three decoders does before it reads syms[]: the
\* length l at which code < sentinels[l] first holds, the code accumulated by
\* then and the index (uint16_t)(offsets[l] + code); hit = FALSE when the loop
\* runs through l = 16 (lines 260-279, 639-649, 682-696)
RECURSIVE SlowIndex(_, _, _, _)
SlowIndex(t, code, bits, l) ==
  LET code1 == U16(code * 2 + (bits % 2)) IN
  IF code1 < t.sentinels[l]
  THEN [hit |-> TRUE, l |-> l, code |-> code1, idx |-> U16(t.offsets[l] + code1)]
  ELSE IF l >= HUFF_MAX_CODE_LENGTH
       THEN [hit |-> FALSE, l |-> 0, code |-> code1, idx |-> 0]
       ELSE SlowIndex(t, code1, bits \div 2, l + 1)

\* the slow loop of a decode call on bitstream bs (the fast entry missed)
SlowOf(t, bs) ==
  SlowIndex(t, t.fast[U8(bs)].rev, U16(bs \div 256), HUFF_FAST_TABLE_BITS + 1)

\* variant: the fast path does not store the length in *used
huff_decode_lsb_unset(t, bs, bl, junk) ==
  LET bits8 == U8(bs)
      fe    == t.fast[bits8]
  IN  IF fe.len # 0
      THEN [sym |-> fe.sym, used |-> 0]
      ELSE CheckLength(t, fe.rev, U16(bs \div 256), HUFF_FAST_TABLE_BITS + 1, junk)

\* bit_length is not read: line 245 is (void)bit_length
huff_decode_lsb(t, bs, bl, junk) ==
  LET bits8 == U8(bs)
      fe    == t.fast[bits8]
  IN  IF fe.len # 0
      THEN [sym |-> fe.sym, used |-> fe.len]
      ELSE CheckLength(t, fe.rev, U16(bs \div 256), HUFF_FAST_TABLE_BITS + 1, junk)

-----------------------------------------------------------------------------
(* huff_decode_lsb_ext and huff_decode_lsb_extof (include/huff/lsb.h)       *)

\* a & m on unsigned operands
RECURSIVE BitAnd(_, _)
BitAnd(a, m) ==
  IF a = 0 \/ m = 0 THEN 0
  ELSE (a % 2) * (m % 2) + 2 * BitAnd(a \div 2, m \div 2)

\* (unsigned)(bitstream >> k): the bit samples stay below 2^32
ShiftedBits(bs, k) == bs \div (2^k)

\* extras[idx]; a read behind the caller's array returns whatever lies there
ReadExt(ex, idx, junk) ==
  IF idx \in DOMAIN ex THEN ex[idx] ELSE Ext(junk, U8(junk), junk)

\* the slow loops of lines 639-649 and 682-696, for l = 9..16.  off = -1 stands
\* for huff_decode_lsb_ext, which reads extras[sym] whatever the symbol
RECURSIVE CheckLengthExt(_, _, _, _, _, _, _)
CheckLengthExt(t, bs, code, bits, l, off, junk) ==
  LET code1 == U16(code * 2 + (bits % 2)) IN
  IF code1 < t.sentinels[l]
  THEN LET s   == ReadSym(t, U16(t.offsets[l] + code1), junk)
           ext == ReadExt(t.extras, IF off < 0 THEN s ELSE s - off, junk)
           v   == ext.base + BitAnd(ext.mask, ShiftedBits(bs, l))
       IN  IF off < 0
           THEN [ret |-> v, used |-> U8(l + U8(ext.bits)), value |-> v, set |-> FALSE]
           ELSE IF s >= off
           THEN [ret |-> s, used |-> U8(l + U8(ext.bits)), value |-> v, set |-> TRUE]
           ELSE [ret |-> s, used |-> l, value |-> 0, set |-> TRUE]
  ELSE IF l >= HUFF_MAX_CODE_LENGTH
       THEN [ret |-> HUFF_FAIL, used |-> 0, value |-> 0, set |-> FALSE]
       ELSE CheckLengthExt(t, bs, code1, bits \div 2, l + 1, off, junk)

\* lines 619-654.  ret is the returned value; set tells whether *value was
\* written (this decoder has no such argument)
huff_decode_lsb_ext(t, bs, junk) ==
  LET bits8 == U8(bs)
      fe    == t.fast[bits8]
  IN  IF fe.len # 0
      THEN [ret   |-> fe.value + BitAnd(fe.mask, ShiftedBits(bs, fe.len)),
            used  |-> fe.total, value |-> 0, set |-> FALSE]
      ELSE CheckLengthExt(t, bs, fe.rev, U16(bs \div 256),
                          HUFF_FAST_TABLE_BITS + 1, -1, junk)

\* lines 656-701.  ret is the returned symbol
huff_decode_lsb_extof(t, bs, off, junk) ==
  LET bits8 == U8(bs)
      fe    == t.fast[bits8]
  IN  IF fe.len # 0
      THEN [ret   |-> fe.sym, used |-> fe.total,
            value |-> fe.value + BitAnd(fe.mask, ShiftedBits(bs, fe.len)),
            set   |-> TRUE]
      ELSE CheckLengthExt(t, bs, fe.rev, U16(bs \div 256),
                          HUFF_FAST_TABLE_BITS + 1, off, junk)

-----------------------------------------------------------------------------
(* src/huff.c: the exported builders huff_init_lsb and huff_init_msb.  They *)
(* carry the suffix C here, lsb.h defines a huff_init_lsb of its own.       *)

MAX_CODE_LENGTH == 16
FAST_TABLE_BITS == 8
FAST_TABLE_SIZE == 2^FAST_TABLE_BITS
FAST_SHIFT      == MAX_CODE_LENGTH - FAST_TABLE_BITS
FAST_MASK       == 2^FAST_TABLE_BITS - 1

\* 0x1FF, the symbol of an invalid fast entry
INVALID_SYM == 511

\* stores into the bitfields sym:9 and len:7
Sym9(x) == x % 512
Len7(x) == x % 128

\* A zero-length C array cannot be told from NULL here: calloc(0) is modelled
\* as an empty array.
Zeros(cnt) == [k \in 0..(cnt - 1) |-> 0]

\* the table object before any builder ran; syms is NULL
FreshTableC(g) ==
  [ fast_table    |-> [i \in 0..(FAST_TABLE_SIZE - 1) |->
                         [sym |-> Sym9(g * 257), len |-> Len7(g)]],
    sentinel_bits |-> [l \in 0..MAX_CODE_LENGTH |-> g * 257],
    sym_offset    |-> [l \in 0..MAX_CODE_LENGTH |-> g * 257],
    syms          |-> NULL,
    num_symbols   |-> g ]

\* the input indices the two nested loops visit: lengths[i] == len for a len
\* in 1..MAX_CODE_LENGTH
CodedC(lens, cnt) == {i \in 0..(cnt - 1) : lens[i] \in 1..MAX_CODE_LENGTH}

\* the value of `code` (and of sym_idx) when the loops reach input index i:
\* the number of coded indices visited before, in (length, index) order
CodeAt(lens, cnt, i) ==
  Cardinality({j \in CodedC(lens, cnt) :
                 lens[j] < lens[i] \/ (lens[j] = lens[i] /\ j < i)})

\* sym = (symbols != NULL) ? symbols[i] : i
SymC(syms_arg, i) == IF syms_arg.null THEN i ELSE syms_arg.arr[i]

\* huff_init_lsb: fast_idx = code + (ext << len), ext < blksz
LsbSlots(code, len) ==
  {code + ext * 2^len : ext \in 0..(2^(FAST_TABLE_BITS - len) - 1)}

\* huff_init_msb: start <= fast_idx < end
MsbSlots(code, len) ==
  LET len_shift == MAX_CODE_LENGTH - len
      start == (code * 2^len_shift) \div 2^FAST_SHIFT
      end   == ((code + 1) * 2^len_shift) \div 2^FAST_SHIFT
  IN  start..(end - 1)

\* the fast table after the loops: every entry holds the last store made to
\* it, the one of the coded index with the largest code.  kind selects the
\* slots of huff_init_lsb or of huff_init_msb.
SlotsC(kind, code, len) ==
  IF kind = "lsb" THEN LsbSlots(code, len) ELSE MsbSlots(code, len)

FastTableC(kind, lens, syms_arg, cnt) ==
  LET short == {i \in CodedC(lens, cnt) : lens[i] <= FAST_TABLE_BITS}
      code  == [i \in short |-> CodeAt(lens, cnt, i)]
  IN  [fast_idx \in 0..(FAST_TABLE_SIZE - 1) |->
         LET W == {i \in short : fast_idx \in SlotsC(kind, code[i], lens[i])} IN
         IF W = {} THEN [sym |-> INVALID_SYM, len |-> 0]
         ELSE LET i == CHOOSE i \in W : \A j \in W : code[j] <= code[i]
              IN  [sym |-> Sym9(SymC(syms_arg, i)), len |-> Len7(lens[i])]]

\* a store at fast_idx >= FAST_TABLE_SIZE lands behind fast_table[]
FastOutOfBounds(kind, lens, cnt) ==
  \E i \in CodedC(lens, cnt) :
    /\ lens[i] <= FAST_TABLE_BITS
    /\ \E x \in SlotsC(kind, CodeAt(lens, cnt, i), lens[i]) : x >= FAST_TABLE_SIZE

\* table->syms after the loops (calloc(n) when it was NULL)
SymsC(t, lens, syms_arg, cnt) ==
  LET arr == IF t.syms.null THEN Zeros(cnt) ELSE t.syms.arr
  IN  Ptr([k \in DOMAIN arr |->
             IF \E i \in CodedC(lens, cnt) : CodeAt(lens, cnt, i) = k
             THEN U16(SymC(syms_arg,
                           CHOOSE i \in CodedC(lens, cnt) : CodeAt(lens, cnt, i) = k))
             ELSE arr[k]])

\* the number of coded indices of length at most l
CodesUpTo(lens, cnt, l) == Cardinality({i \in CodedC(lens, cnt) : lens[i] <= l})

\* src/huff.c lines 103-156
huffc_init_lsb(t, lens, syms_arg, cnt) ==
  [ fast_table    |-> FastTableC("lsb", lens, syms_arg, cnt),
    sentinel_bits |-> [l \in 0..MAX_CODE_LENGTH |-> CodesUpTo(lens, cnt, l)],
    sym_offset    |-> [l \in 0..MAX_CODE_LENGTH |->
                         IF l = 0 THEN t.sym_offset[0]
                         ELSE U16(CodesUpTo(lens, cnt, l - 1))],
    syms          |-> SymsC(t, lens, syms_arg, cnt),
    num_symbols   |-> cnt ]

\* src/huff.c lines 223-277
huffc_init_msb(t, lens, syms_arg, cnt) ==
  [ fast_table    |-> FastTableC("msb", lens, syms_arg, cnt),
    sentinel_bits |-> [l \in 0..MAX_CODE_LENGTH |->
                         IF l = 0 THEN t.sentinel_bits[0]
                         ELSE CodesUpTo(lens, cnt, l) * 2^(MAX_CODE_LENGTH - l)],
    sym_offset    |-> [l \in 0..MAX_CODE_LENGTH |->
                         IF l = 0 THEN t.sym_offset[0]
                         ELSE U16(CodesUpTo(lens, cnt, l - 1))],
    syms          |-> SymsC(t, lens, syms_arg, cnt),
    num_symbols   |-> cnt ]

-----------------------------------------------------------------------------
(* src/huff.c: the exported decoders huff_decode_lsb and huff_decode_msb    *)

\* table->syms[idx]; idx is a uint_fast16_t, so a negative difference wraps
\* to an index far behind the array
ReadSymsC(t, idx, junk) ==
  IF idx \in DOMAIN t.syms.arr THEN t.syms.arr[idx] ELSE junk

\* the code the slow loop compares at length l
SlowCodeC(kind, bs, l) ==
  IF kind = "lsb" THEN bs % (2^l) ELSE bs \div (2^(MAX_CODE_LENGTH - l))

\* the slow loops of lines 476-484 and 510-518, from length l up to bit_length
RECURSIVE SlowC(_, _, _, _, _, _)
SlowC(kind, t, bs, l, bl, junk) ==
  IF l > bl THEN [sym |-> HUFF_FAIL, used |-> 0]
  ELSE LET code == SlowCodeC(kind, bs, l) IN
       IF code < t.sentinel_bits[l]
       THEN [sym  |-> ReadSymsC(t, t.sym_offset[l] + (code - t.sentinel_bits[l - 1]), junk),
             used |-> l]
       ELSE SlowC(kind, t, bs, l + 1, bl, junk)

\* fast_idx of the two decoders
FastIdxC(kind, bs) ==
  IF kind = "lsb" THEN bs % (FAST_MASK + 1)
  ELSE (bs \div (2^FAST_SHIFT)) % (FAST_MASK + 1)

DecodeC(kind, t, bs, bl, junk) ==
  LET bl1 == IF bl > MAX_CODE_LENGTH THEN MAX_CODE_LENGTH ELSE bl
      fe  == t.fast_table[FastIdxC(kind, bs)]
  IN  IF fe.len <= bl1
      THEN [sym |-> fe.sym, used |-> fe.len]
      ELSE SlowC(kind, t, bs, FAST_TABLE_BITS + 1, bl1, junk)

\* src/huff.c lines 456-489
huffc_decode_lsb(t, bs, bl, junk) == DecodeC("lsb", t, bs, bl, junk)

\* src/huff.c lines 491-524
huffc_decode_msb(t, bs, bl, junk) == DecodeC("msb", t, bs, bl, junk)

-----------------------------------------------------------------------------
(* The bit readers: huff_read and huff_read2 of src/huff.c, and the readers *)
(* of include/huff/read.h.  A bitstream_t is modelled by its bits, bit 0    *)
(* first                                                                    *)

\* sizeof(bitstream_t)
SIZEOF_BITSTREAM == 8

ZeroBits(k) == [i \in 1..k |-> 0]

ZeroWord == ZeroBits(8 * SIZEOF_BITSTREAM)

\* variant: the first byte loaded becomes the most significant one
LoadBE(bf, pp, cnt) ==
  LET raw == [k \in 1..(8 * cnt) |->
                BitAt(bf[pp + cnt - 1 - ((k - 1) \div 8)], (k - 1) % 8)]
  IN  SubSeq(raw \o ZeroWord, 1, 8 * SIZEOF_BITSTREAM)

\* result |= (bitstream_t)p[i] << (i * 8) for i < cnt: the bits of the bytes
\* bf[pp .. pp+cnt-1], least significant bit of the first byte first, kept to
\* the width of bitstream_t
LoadLE(bf, pp, cnt) ==
  LET raw == [k \in 1..(8 * cnt) |-> BitAt(bf[pp + ((k - 1) \div 8)], (k - 1) % 8)]
  IN  SubSeq(raw \o ZeroWord, 1, 8 * SIZEOF_BITSTREAM)

\* variant: the bits consumed in the first byte are not shifted out
ShiftRightNone(w, k) == w

\* result >>= k
ShiftRight(w, k) == SubSeq(w, k + 1, Len(w)) \o ZeroBits(k)

\* one past the last byte index a load of cnt bytes at index pp touches
LoadedUpTo(pp, cnt) == IF cnt > 0 THEN pp + cnt ELSE 0

\* bytes of the vector loads of include/huff/read.h
SSE_BYTES  == 16
AVX2_BYTES == 32
NEON_BYTES == 8

\* variant: every remaining byte is loaded
LoadAllBytes(remaining_bytes) == remaining_bytes

\* bytes_to_load = (remaining_bytes < max_bytes) ? remaining_bytes : max_bytes
BytesToLoad(remaining_bytes) ==
  IF remaining_bytes < SIZEOF_BITSTREAM THEN remaining_bytes ELSE SIZEOF_BITSTREAM

\* src/huff.c lines 331-370; end is the number of bytes of bf
huff_read(bf, end, pp, bo) ==
  IF pp >= end
  THEN [word |-> ZeroWord, nbits |-> 0, p |-> pp, bit_offset |-> bo, hi |-> 0]
  ELSE LET bit_in_byte   == bo % 8
           bytes_to_load == BytesToLoad(end - pp)
           nb            == U8(bytes_to_load * 8 - bit_in_byte)
       IN  [ word       |-> ShiftRight(LoadLE(bf, pp, bytes_to_load), bit_in_byte),
             nbits      |-> nb,
             p          |-> pp + (nb \div 8),
             bit_offset |-> bo + nb,
             hi         |-> LoadedUpTo(pp, bytes_to_load) ]

\* src/huff.c lines 372-454: the stream starts at bf[pp] and has stream_size
\* bytes; bo is the bit offset from the start of the stream
huff_read2(bf, pp, stream_size, bo) ==
  LET byte_offset     == bo \div 8
      bit_in_byte     == bo % 8
      remaining_bytes == IF stream_size > byte_offset
                         THEN stream_size - byte_offset ELSE 0
      bytes_to_load   == BytesToLoad(remaining_bytes)
      nb              == U8(bytes_to_load * 8)
  IN  [ word       |-> ShiftRight(LoadLE(bf, pp + byte_offset, bytes_to_load),
                                  bit_in_byte),
        nbits      |-> nb,
        p          |-> pp,
        bit_offset |-> bo + nb - bit_in_byte,
        hi         |-> LoadedUpTo(pp + byte_offset, bytes_to_load) ]

\* include/huff/read.h lines 29-53: a byte cursor only
huff_read_scalar(bf, end, pp, bo) ==
  LET cnt == BytesToLoad(end - pp)
  IN  [ word       |-> LoadLE(bf, pp, cnt),
        nbits      |-> cnt * 8,
        p          |-> pp + cnt,
        bit_offset |-> bo,
        hi         |-> LoadedUpTo(pp, cnt) ]

\* the memory a vector load sees: the buffer, then whatever lies behind it
\* (mem is the value of the bytes at and after end)
Behind(bf, end, mem, upto) ==
  [i \in 0..(upto - 1) |-> IF i < end THEN bf[i] ELSE mem]

\* include/huff/read.h, the vector readers with a 64-bit bitstream_t: one
\* unaligned load of `width` bytes at p, whatever end is, of which the low 64
\* bits are the result; the pointer and the count are the scalar reader's
huff_read_vec(bf, end, pp, bo, width, mem) ==
  LET cnt == BytesToLoad(end - pp)
  IN  [ word       |-> LoadLE(Behind(bf, end, mem, pp + width), pp,
                              SIZEOF_BITSTREAM),
        nbits      |-> cnt * 8,
        p          |-> pp + cnt,
        bit_offset |-> bo,
        hi         |-> LoadedUpTo(pp, width) ]

\* lines 95-139: _mm_loadu_si128
huff_read_sse(bf, end, pp, bo, mem) ==
  huff_read_vec(bf, end, pp, bo, SSE_BYTES, mem)

\* lines 141-188: _mm256_loadu_si256
huff_read_avx2(bf, end, pp, bo, mem) ==
  huff_read_vec(bf, end, pp, bo, AVX2_BYTES, mem)

\* lines 55-93: vld1_u8
huff_read_neon(bf, end, pp, bo, mem) ==
  huff_read_vec(bf, end, pp, bo, NEON_BYTES, mem)

-----------------------------------------------------------------------------
(* Inputs of the model                                                      *)

MaxN        == 3   \* enumerated length tables have at most MaxN entries ...
MaxSmallLen == 2   \* ... each a length in 0..MaxSmallLen
MaxExp      == 1   \* comb tables end in 2^(e+1) codes of equal length, e <= MaxExp
ShortWindow == 4   \* the short bit_length offered to decode
MaxTail     == 2   \* bits of free pattern after the run of ones in a bit sample
MaxMsg      == 2   \* symbols per decode session
AlphaBase   == 100 \* symbols[i] = AlphaBase + i in the non-NULL alphabet
AlphaN      == 2   \* entries of the tables that come with a symbols array
MaxExtraBits == 13 \* extras[k].bits is in 0..MaxExtraBits (13 in DEFLATE)
BaseStep    == 11  \* extras[k].base = 65535 - BaseStep * k
MaxOffset   == 2   \* offset argument of huff_init_lsb_extof
MaxBufLen   == 10  \* bytes in a reader buffer
MaxUsed     == 9   \* the largest `used` a caller moves its cursor by
WindowSyms  == 4   \* symbols in a session that starts from a one-byte window
MaxBuilds   == 2   \* builder calls made on one table object

FillBytes == {0, 165}
Junk      == {0, 43690}

\* bits of bitstream_t (uint_fast64_t unless HUFF_ENABLE_BIG_BITSTREAM)
WordBits == 64

\* A C array given by its elements
Arr(seq) == [i \in 0..(Len(seq) - 1) |-> seq[i + 1]]

\* every length table of at most MaxN entries over 0..MaxSmallLen
SmallTables == UNION {[0..(k - 1) -> 0..MaxSmallLen] : k \in 0..MaxN}

\* comb table: lengths 1, 2, .., k-1 followed by 2^(e+1) codes of length k+e
\* (Kraft sum exactly 1)
Comb(k, e) ==
  [i \in 0..(k - 2 + 2^(e + 1)) |-> IF i < k - 1 THEN i + 1 ELSE k + e]

CombTables ==
  {Comb(k, e) : k \in 1..HUFF_MAX_CODE_LENGTH, e \in 0..MaxExp}

FitsMaxLen(lens) == \A i \in DOMAIN lens : lens[i] <= HUFF_MAX_CODE_LENGTH

\* the same with the last entry dropped (Kraft sum below 1)
CutLast(lens) == [i \in 0..(Cardinality(DOMAIN lens) - 2) |-> lens[i]]

\* the same in reverse input order
Reversed(lens) ==
  LET c == Cardinality(DOMAIN lens) IN [i \in 0..(c - 1) |-> lens[c - 1 - i]]

LongTables ==
  LET combs == {t \in CombTables : FitsMaxLen(t)}
  IN  combs \cup {CutLast(t) : t \in combs} \cup {Reversed(t) : t \in combs}

\* tables the builders are documented to reject
BadTables ==
  { Arr(<<HUFF_MAX_CODE_LENGTH + 1>>),
    Arr(<<1, HUFF_MAX_CODE_LENGTH + 1>>),
    [i \in 0..HUFF_MAX_CODES |-> IF i < 2 THEN 1 ELSE 0],
    [i \in 0..HUFF_MAX_CODES |-> 9] }

\* a length table followed by `extra` more entries of length l
Padded(lens, extra, l) ==
  LET c == Cardinality(DOMAIN lens)
  IN  [i \in 0..(c + extra - 1) |-> IF i < c THEN lens[i] ELSE l]

\* over-subscribed tables (Kraft sum above 1) with codes longer than the fast
\* table's index: a complete comb table with one more code of its last
\* length or with two longer codes, three 2-bit codes with more 9-bit codes
\* than the last quarter of the code space holds, and HUFF_MAX_CODES codes of
\* one bit.  (SmallTables holds the short over-subscribed tables.)
OverTables ==
  { Padded(Comb(HUFF_FAST_TABLE_BITS + 1, 0), 1, HUFF_FAST_TABLE_BITS + 1),
    Padded(Comb(HUFF_FAST_TABLE_BITS + 1, 0), 2, HUFF_FAST_TABLE_BITS + 2),
    Padded(Comb(HUFF_MAX_CODE_LENGTH, 0), 1, HUFF_MAX_CODE_LENGTH),
    Padded(Arr(<<2, 2, 2>>), 2^(HUFF_FAST_TABLE_BITS - 1) + 1, HUFF_FAST_TABLE_BITS + 1),
    [i \in 0..(HUFF_MAX_CODES - 1) |-> 1] }

\* the lengths of the fixed literal/length code of DEFLATE
DeflateLens ==
  [i \in 0..(HUFF_MAX_CODES - 1) |->
     IF i <= 143 THEN 8 ELSE IF i <= 255 THEN 9 ELSE IF i <= 279 THEN 7 ELSE 8]

\* four symbols of two bits each
FourTwos == Arr(<<2, 2, 2, 2>>)

Alphabet(cnt) == Ptr([i \in 0..(cnt - 1) |-> AlphaBase + i])

BuildInputs ==
  {[lens |-> t, syms |-> NULL] :
     t \in SmallTables \cup LongTables \cup BadTables \cup OverTables
           \cup {FourTwos, DeflateLens}}
  \cup {[lens |-> t, syms |-> Alphabet(Cardinality(DOMAIN t))] :
          t \in {u \in SmallTables : Cardinality(DOMAIN u) = AlphaN}}

\* length tables of the extended builders
ExtTables ==
  { Arr(<<>>), Arr(<<0, 0>>), Arr(<<1, 0, 0>>), Arr(<<1, 1>>), Arr(<<1, 2, 2>>),
    Arr(<<1, 1, 1>>), Arr(<<2, 2, 2, 2>>),
    Comb(9, 0), CutLast(Comb(9, 0)), Reversed(Comb(10, 0)),
    Comb(HUFF_MAX_CODE_LENGTH, 0), CutLast(Comb(HUFF_MAX_CODE_LENGTH, 0)) }

\* extras[k] for k < cnt: bases counting down from the largest base, extra
\* bit counts cycling through 0..MaxExtraBits starting at shift
ExtrasArr(cnt, shift) ==
  [k \in 0..(cnt - 1) |->
     LET bits == (k + shift) % (MaxExtraBits + 1)
     IN  Ext(65535 - BaseStep * k, bits, 2^bits - 1)]

\* extras whose mask field the caller left zero
ExtrasNoMask(cnt) ==
  [k \in 0..(cnt - 1) |-> Ext(ExtrasArr(cnt, 1)[k].base, ExtrasArr(cnt, 1)[k].bits, 0)]

ExtInputs ==
  {[lens |-> t, extras |-> ExtrasArr(Cardinality(DOMAIN t), shift), offset |-> 0] :
     t \in ExtTables, shift \in {0, MaxExtraBits}}
  \cup {[lens |-> Comb(HUFF_FAST_TABLE_BITS + 1, 0),
         extras |-> ExtrasNoMask(Cardinality(DOMAIN Comb(HUFF_FAST_TABLE_BITS + 1, 0))),
         offset |-> 0]}

\* huff_init_lsb_extof: extras describes the symbols from offset on
ExtofInputs ==
  UNION {{[lens |-> t, offset |-> off,
           extras |-> ExtrasArr(Cardinality(DOMAIN t) - off, MaxExtraBits)] :
            t \in {u \in ExtTables : Cardinality(DOMAIN u) >= off}} :
         off \in 0..MaxOffset}

\* the fixed literal/length code of DEFLATE with the extras of its length
\* symbols 257..285 (two unused entries follow: symbols 286, 287 have codes)
DeflateOffset == 257

DeflateExtras ==
  [k \in 0..(HUFF_MAX_CODES - DeflateOffset - 1) |->
     IF k < 8 THEN Ext(3 + k, 0, 0)
     ELSE IF k < 28
     THEN LET g == ((k - 8) \div 4) + 1
          IN  Ext(3 + (4 + ((k - 8) % 4)) * 2^g, g, 2^g - 1)
     ELSE IF k = 28 THEN Ext(258, 0, 0) ELSE Ext(0, 0, 0)]

DeflateInput ==
  [lens |-> DeflateLens, offset |-> DeflateOffset, extras |-> DeflateExtras]

\* bitstreams for the extended decoders besides BitSamples: the 7-bit code
\* 0001001 of symbol 265 of DeflateLens, first code bit first, followed by
\* an extra bit 0 or 1
ExtSamples == {72, 200}

\* the tables a table object held before it is built again: they leave every
\* sentinel and offset non-zero, or every syms[] slot and fast entry in use
ResidueTables == {DeflateLens, CutLast(Comb(HUFF_MAX_CODE_LENGTH, 0))}

\* inputs of the builders of src/huff.c
CTables ==
  SmallTables \cup {Comb(k, 0) : k \in {FAST_TABLE_BITS, FAST_TABLE_BITS + 1}}
              \cup {Arr(<<MAX_CODE_LENGTH + 1, 1>>)}

CBuildInputs ==
  {[lens |-> t, syms |-> NULL] : t \in CTables}
  \cup {[lens |-> t, syms |-> Alphabet(Cardinality(DOMAIN t))] :
          t \in {u \in SmallTables : Cardinality(DOMAIN u) = AlphaN}}

\* byte buffers of the bit readers: 0xAB, 0xCD repeated, or bytes that are
\* all different
BufferByte(kind, i) ==
  IF kind = 0 THEN (IF i % 2 = 0 THEN 171 ELSE 205) ELSE (37 * i + 1) % 256

Buffers ==
  {[i \in 0..(len - 1) |-> BufferByte(kind, i)] : len \in 0..MaxBufLen, kind \in 0..1}

\* the `used` values a caller advances its cursor by
UsedSamples == {1, MaxUsed}

\* bit samples: a run of j ones, MaxTail free bits, then all zeros or all ones
\* up to bit 23 (the decoder reads bits 0..23 of its argument: lines 248, 256)
DecodeWindowBits == 24

BitSamples ==
  LET lowpart(j, m) == (2^j - 1) + m * 2^j
      width(j)      == j + MaxTail
      ones(j)       == IF width(j) >= DecodeWindowBits THEN 0
                       ELSE 2^DecodeWindowBits - 2^width(j)
  IN  UNION {{lowpart(j, m), lowpart(j, m) + ones(j)} :
               j \in 0..HUFF_MAX_CODE_LENGTH, m \in 0..(2^MaxTail - 1)}

BitLengthSamples == {ShortWindow, WordBits}

\* bit_length samples of the decoders of src/huff.c
CBitLengths == {1, ShortWindow, WordBits}


-----------------------------------------------------------------------------
(* Canonical Huffman code of a length table, the naive encoder and the      *)
(* bit-by-bit reference decoder the properties compare the program with     *)

\* Kraft sum scaled by 2^HUFF_MAX_CODE_LENGTH
LengthsIn(lens, l) == Cardinality({i \in DOMAIN lens : lens[i] = l})

RECURSIVE KraftUpTo(_, _)
KraftUpTo(lens, l) ==
  IF l = 0 THEN 0
  ELSE KraftUpTo(lens, l - 1) + LengthsIn(lens, l) * 2^(HUFF_MAX_CODE_LENGTH - l)

KraftSum(lens) == KraftUpTo(lens, HUFF_MAX_CODE_LENGTH)
KraftOne == 2^HUFF_MAX_CODE_LENGTH

\* a table the builder's contract admits
ValidLengths(lens) ==
  /\ FitsMaxLen(lens)
  /\ Cardinality(DOMAIN lens) <= HUFF_MAX_CODES
  /\ KraftSum(lens) <= KraftOne

KraftComplete(lens)   == ValidLengths(lens) /\ KraftSum(lens) = KraftOne
KraftIncomplete(lens) == ValidLengths(lens) /\ KraftSum(lens) < KraftOne

CodedSymbols(lens) == {i \in DOMAIN lens : lens[i] # 0}

\* codeword of input index i, as the integer whose most significant bit is
\* sent first: codes are given out in ascending (length, index) order
RefCode(lens, i) ==
  LET l == lens[i]
      RECURSIVE Shorter(_)
      Shorter(k) ==   \* codes of length below k, each counted as 2^(l-length)
        IF k <= 1 THEN 0
        ELSE Shorter(k - 1) + LengthsIn(lens, k - 1) * 2^(l - (k - 1))
  IN  Shorter(l) + Cardinality({j \in DOMAIN lens : lens[j] = l /\ j < i})

\* the bits of the codeword in the order they enter the stream
CodeBits(lens, i) == [k \in 1..lens[i] |-> BitAt(RefCode(lens, i), lens[i] - k)]

RECURSIVE Encode(_, _)
Encode(lens, S) ==
  IF S = <<>> THEN <<>> ELSE CodeBits(lens, Head(S)) \o Encode(lens, Tail(S))

\* reference decoder: walk the code tree one bit at a time from bit 0
RECURSIVE RefWalk(_, _, _, _)
RefWalk(lens, bs, l, acc) ==
  IF l > HUFF_MAX_CODE_LENGTH THEN [sym |-> HUFF_FAIL, used |-> 0]
  ELSE LET acc1 == 2 * acc + BitAt(bs, l - 1)
           leaf == {i \in DOMAIN lens : lens[i] = l /\ RefCode(lens, i) = acc1}
       IN  IF leaf # {} THEN [sym |-> CHOOSE i \in leaf : TRUE, used |-> l]
           ELSE RefWalk(lens, bs, l + 1, acc1)

RefDecode(lens, bs) == RefWalk(lens, bs, 1, 0)

\* the integer held by the low bits of a bit sequence (first element = bit 0)
RECURSIVE BitsValue(_)
BitsValue(bits) == IF bits = <<>> THEN 0 ELSE Head(bits) + 2 * BitsValue(Tail(bits))

\* the word the caller hands to decode: bits 0..23 of the pending stream
Window(bits) ==
  BitsValue(SubSeq(bits, 1, IF Len(bits) < DecodeWindowBits THEN Len(bits)
                            ELSE DecodeWindowBits))

\* messages: MaxMsg or fewer coded symbols taken from the coded symbols in
\* input order, starting anywhere, stepping by 0 or 1 (cyclically)
Rank(lens, i) == Cardinality({j \in CodedSymbols(lens) : j < i})
NthCoded(lens, r) == CHOOSE i \in CodedSymbols(lens) : Rank(lens, i) = r

Messages(lens) ==
  LET K == Cardinality(CodedSymbols(lens)) IN
  { [k \in 1..len |-> NthCoded(lens, (start + (k - 1) * step) % K)] :
      start \in 0..(K - 1), step \in 0..1, len \in 1..MaxMsg }

-----------------------------------------------------------------------------
(* huff_rev_bits (src/huff.c), on the bits of a 64-bit bitstream_t          *)

\* the first 16 entries of bit_reverse_table[256] (lines 48-49), all that the
\* 128-bit table loads of huff_rev_bits see
bit_reverse_table ==
  <<0, 128, 64, 192, 32, 160, 96, 224, 16, 144, 80, 208, 48, 176, 112, 240>>

\* the bits of a byte, bit 0 first
BitsOfByte(b) == [k \in 1..8 |-> BitAt(b, k - 1)]

\* byte j of a word (0 = least significant)
ByteOf(w, j) == BitsValue(SubSeq(w, 8 * j + 1, 8 * j + 8))

\* the word whose byte j is f[j]
FromBytes(f) == [k \in 1..WordBits |-> BitAt(f[(k - 1) \div 8], (k - 1) % 8)]

\* one byte lane of _mm_shuffle_epi8(lookup, input): the input byte selects
\* lookup[input & 15], or 0 when its top bit is set
mm_shuffle_epi8(lookup, idx) ==
  IF idx >= 128 THEN 0 ELSE lookup[(idx % 16) + 1]

\* one byte lane of vtbl1_u8(lookup, input) on the 8-byte table vld1_u8 loads:
\* the input byte selects lookup[input], or 0 when it is 8 or more
vtbl1_u8(lookup, idx) ==
  IF idx >= 8 THEN 0 ELSE lookup[idx + 1]

\* lines 322-328: result |= ((x >> i) & 1) << (bit_count - 1 - i)
RevLoop(w) == [k \in 1..WordBits |-> w[WordBits + 1 - k]]

\* lines 295-298 and 302-305: every byte of x indexes the table
RevShuffle(w) ==
  FromBytes([j \in 0..(SIZEOF_BITSTREAM - 1) |->
               mm_shuffle_epi8(bit_reverse_table, ByteOf(w, j))])

\* lines 316-319
RevNeon(w) ==
  FromBytes([j \in 0..(SIZEOF_BITSTREAM - 1) |->
               vtbl1_u8(bit_reverse_table, ByteOf(w, j))])

\* the paths #if selects: AVX2 and SSSE3 ("shuffle"), NEON, or the loop
RevPaths == {"scalar", "shuffle", "neon"}

huff_rev_bits(path, w) ==
  CASE path = "scalar"  -> RevLoop(w)
    [] path = "shuffle" -> RevShuffle(w)
    [] path = "neon"    -> RevNeon(w)

\* inputs: words with one sample byte in one byte position, and the words a
\* reader loads from the sample buffers
RevByteSamples == {1, 7, 15, 128, 178, 255}

RevWords ==
  {FromBytes([j \in 0..(SIZEOF_BITSTREAM - 1) |-> IF j = at THEN v ELSE 0]) :
     v \in RevByteSamples, at \in 0..(SIZEOF_BITSTREAM - 1)}
  \cup {LoadLE(bf, 0, BytesToLoad(Cardinality(DOMAIN bf))) : bf \in Buffers}

RevBytes == {BitsOfByte(b) : b \in 0..255}

-----------------------------------------------------------------------------
(* Values of the variables a state machine does not use                     *)

NoCall == /\ bitstream = 0 /\ bit_length = 0 /\ sym = 0 /\ used = 0 /\ value = 0

NoSession == /\ msg = <<>> /\ stream = <<>> /\ out = <<>>

NoTable ==
  /\ table = <<>> /\ lengths = <<>> /\ symbols = NULL /\ extras = <<>>
  /\ offset = 0 /\ n = 0 /\ ret = "none" /\ builds = 0

NoReader ==
  /\ buf = <<>> /\ p = 0 /\ bit_offset = 0 /\ nbits = 0 /\ word = <<>>
  /\ from = [p |-> 0, bit_offset |-> 0] /\ origin = 0 /\ got = <<>>
  /\ loaded = 0

NoRev ==
  /\ rev_path = "scalar" /\ rev_x = <<>> /\ rev_out = <<>> /\ rev_hist = <<>>

-----------------------------------------------------------------------------
(* The state machine of the header-only LSB decoder (include/huff/lsb.h)    *)

Init ==
  /\ \E g \in FillBytes : table \in {FreshTable(g), FreshTableExt(g)}
  /\ lengths = <<>>
  /\ symbols = NULL
  /\ extras = <<>>
  /\ offset = 0
  /\ n = 0
  /\ ret = "none"
  /\ builds = 0
  /\ last = "new"
  /\ NoCall
  /\ NoSession
  /\ NoReader
  /\ NoRev

IsExtTable(t) == "extras" \in DOMAIN t

\* a call of huff_init_lsb(&table, lengths, symbols, n)
InitLsb ==
  /\ last = "new"
  /\ ~IsExtTable(table)
  /\ \E inp \in BuildInputs :
       LET cnt == Cardinality(DOMAIN inp.lens) IN
       /\ lengths' = inp.lens
       /\ symbols' = inp.syms
       /\ n' = cnt
       /\ \/ /\ ret' = "true"          \* line 410: the only return statement
             /\ table' = huff_init_lsb(table, inp.lens, inp.syms, cnt)
          \/ /\ InitOutOfBounds(inp.lens, cnt)
             /\ ret' = "crash"         \* the out-of-bounds store faults
             /\ table' = table
  /\ last' = "init"
  /\ builds' = builds + 1
  /\ UNCHANGED <<revVars, extras, offset, callVars, sessionVars, readVars>>

\* a call of huff_init_lsb_ext(&table, lengths, NULL, extras, n)
InitLsbExt ==
  /\ last = "new"
  /\ IsExtTable(table)
  /\ \E inp \in ExtInputs :
       LET cnt == Cardinality(DOMAIN inp.lens) IN
       /\ lengths' = inp.lens
       /\ extras' = inp.extras
       /\ offset' = 0
       /\ n' = cnt
       /\ table' = huff_init_lsb_ext(table, inp.lens, NULL, inp.extras, cnt)
  /\ symbols' = NULL
  /\ ret' = "true"
  /\ last' = "init_ext"
  /\ builds' = builds + 1
  /\ UNCHANGED <<revVars, callVars, sessionVars, readVars>>

\* a call of huff_init_lsb_extof(&table, lengths, NULL, extras, offset, n)
InitLsbExtof ==
  /\ last = "new"
  /\ IsExtTable(table)
  /\ \E inp \in ExtofInputs \cup {DeflateInput} :
       LET cnt == Cardinality(DOMAIN inp.lens) IN
       /\ lengths' = inp.lens
       /\ extras' = inp.extras
       /\ offset' = inp.offset
       /\ n' = cnt
       /\ table' = huff_init_lsb_extof(table, inp.lens, NULL, inp.extras,
                                       inp.offset, cnt)
  /\ symbols' = NULL
  /\ ret' = "true"
  /\ last' = "init_extof"
  /\ builds' = builds + 1
  /\ UNCHANGED <<revVars, callVars, sessionVars, readVars>>

\* a further call of huff_init_lsb(&table, lengths, NULL, n) on a table object
\* that was built before
ReInitLsb ==
  /\ last = "init"
  /\ ret = "true"
  /\ builds < MaxBuilds
  /\ lengths \in ResidueTables
  /\ \E t \in ExtTables :
       LET cnt == Cardinality(DOMAIN t) IN
       /\ lengths' = t
       /\ n' = cnt
       /\ table' = huff_init_lsb(table, t, NULL, cnt)
  /\ symbols' = NULL
  /\ ret' = "true"
  /\ last' = "init"
  /\ builds' = builds + 1
  /\ UNCHANGED <<revVars, extras, offset, callVars, sessionVars, readVars>>

\* a further call of huff_init_lsb_ext or huff_init_lsb_extof on an extended
\* table object that held the DEFLATE table
ReInitLsbExt ==
  /\ last = "init_extof"
  /\ builds < MaxBuilds
  /\ lengths \in ResidueTables /\ offset = DeflateOffset
  /\ \/ \E inp \in ExtInputs :
          LET cnt == Cardinality(DOMAIN inp.lens) IN
          /\ lengths' = inp.lens
          /\ extras' = inp.extras
          /\ offset' = 0
          /\ n' = cnt
          /\ table' = huff_init_lsb_ext(table, inp.lens, NULL, inp.extras, cnt)
          /\ last' = "init_ext"
     \/ \E inp \in ExtofInputs :
          LET cnt == Cardinality(DOMAIN inp.lens) IN
          /\ lengths' = inp.lens
          /\ extras' = inp.extras
          /\ offset' = inp.offset
          /\ n' = cnt
          /\ table' = huff_init_lsb_extof(table, inp.lens, NULL, inp.extras,
                                          inp.offset, cnt)
          /\ last' = "init_extof"
  /\ symbols' = NULL
  /\ ret' = "true"
  /\ builds' = builds + 1
  /\ UNCHANGED <<revVars, callVars, sessionVars, readVars>>

\* a call of huff_decode_lsb(&table, bitstream, bit_length, &used).  The call
\* reads the table and writes only its own outputs, so the call made right
\* after the build stands for a call made at any later time.
Decode ==
  /\ ret = "true"
  /\ last = "init"
  /\ \E bs \in BitSamples, bl \in BitLengthSamples, junk \in Junk :
       LET r == huff_decode_lsb(table, bs, bl, junk) IN
       /\ bitstream' = bs
       /\ bit_length' = bl
       /\ sym' = r.sym
       /\ used' = r.used
  /\ last' = "decode"
  /\ UNCHANGED <<revVars, tableVars, value, sessionVars, readVars>>

\* a call of huff_decode_lsb_ext(&table, bitstream, &used)
DecodeExt ==
  /\ last \in {"init_ext", "init_extof"}
  /\ \E bs \in BitSamples \cup ExtSamples, junk \in Junk :
       LET r == huff_decode_lsb_ext(table, bs, junk) IN
       /\ bitstream' = bs
       /\ sym' = r.ret
       /\ used' = r.used
  /\ last' = "decode_ext"
  /\ UNCHANGED <<revVars, tableVars, bit_length, value, sessionVars, readVars>>

\* a call of huff_decode_lsb_extof(&table, bitstream, &used, &value, offset)
\* with the offset the table was built with
DecodeExtof ==
  /\ last = "init_extof"
  /\ \E bs \in BitSamples \cup ExtSamples, junk \in Junk :
       LET r == huff_decode_lsb_extof(table, bs, offset, junk) IN
       /\ bitstream' = bs
       /\ sym' = r.ret
       /\ used' = r.used
       /\ value' = IF r.set THEN r.value ELSE value
  /\ last' = "decode_extof"
  /\ UNCHANGED <<revVars, tableVars, bit_length, sessionVars, readVars>>

\* sessions are run on alphabets of at most this many symbols: every table of
\* LongTables is among them
SessionAlphabet == 2 * HUFF_MAX_CODE_LENGTH

\* the caller encodes a message with the canonical code of the table's lengths
StartSession ==
  /\ ret = "true"
  /\ last = "init"
  /\ ValidLengths(lengths)
  /\ n <= SessionAlphabet
  /\ \E S \in Messages(lengths) :
       /\ msg' = S
       /\ stream' = Encode(lengths, S)
  /\ out' = <<>>
  /\ last' = "start"
  /\ UNCHANGED <<revVars, tableVars, callVars, readVars>>

\* the caller holds one byte of stream that encodes WindowSyms symbols of an
\* alphabet of at most WindowSyms symbols
StartWindow ==
  /\ ret = "true"
  /\ last = "init"
  /\ ValidLengths(lengths)
  /\ n <= WindowSyms
  /\ \E S \in [1..WindowSyms -> CodedSymbols(lengths)] :
       /\ Len(Encode(lengths, S)) = 8
       /\ msg' = S
       /\ stream' = BitsOfByte(BitsValue(Encode(lengths, S)))
  /\ out' = <<>>
  /\ last' = "start"
  /\ UNCHANGED <<revVars, tableVars, callVars, readVars>>

\* the caller decodes the next symbol and shifts the stream right by `used`
DecodeNext ==
  /\ last \in {"start", "next"}
  /\ Len(out) < Len(msg)
  /\ out # <<>> => used # 0
  /\ \E junk \in Junk :
       LET bs == Window(stream)
           bl == IF Len(stream) < WordBits THEN Len(stream) ELSE WordBits
           r  == huff_decode_lsb(table, bs, bl, junk)
       IN  /\ bitstream' = bs
           /\ bit_length' = bl
           /\ sym' = r.sym
           /\ used' = r.used
           /\ out' = Append(out, <<r.sym, r.used>>)
           /\ stream' = SubSeq(stream, r.used + 1, Len(stream))
  /\ last' = "next"
  /\ UNCHANGED <<revVars, tableVars, value, msg, readVars>>

Next ==
  \/ InitLsb
  \/ InitLsbExt
  \/ InitLsbExtof
  \/ ReInitLsb
  \/ ReInitLsbExt
  \/ Decode
  \/ DecodeExt
  \/ DecodeExtof
  \/ StartSession
  \/ StartWindow
  \/ DecodeNext

Spec == Init /\ [][Next]_vars

-----------------------------------------------------------------------------
(* The state machine of the exported builders and decoders of src/huff.c    *)

InitC ==
  /\ \E g \in FillBytes : table = FreshTableC(g)
  /\ lengths = <<>>
  /\ symbols = NULL
  /\ extras = <<>>
  /\ offset = 0
  /\ n = 0
  /\ ret = "none"
  /\ builds = 0
  /\ last = "new"
  /\ NoCall
  /\ NoSession
  /\ NoReader
  /\ NoRev

\* a call of a builder of src/huff.c; kind is "lsb" or "msb"
BuildC(kind) ==
  /\ last = "new"
  /\ \E inp \in CBuildInputs :
       LET cnt == Cardinality(DOMAIN inp.lens) IN
       /\ lengths' = inp.lens
       /\ symbols' = inp.syms
       /\ n' = cnt
       /\ \/ /\ ret' = "done"
             /\ table' = IF kind = "lsb"
                         THEN huffc_init_lsb(table, inp.lens, inp.syms, cnt)
                         ELSE huffc_init_msb(table, inp.lens, inp.syms, cnt)
          \/ /\ FastOutOfBounds(kind, inp.lens, cnt)
             /\ ret' = "crash"         \* the store behind fast_table[] faults
             /\ table' = table
  /\ last' = kind
  /\ builds' = builds + 1
  /\ UNCHANGED <<revVars, extras, offset, callVars, sessionVars, readVars>>

InitLsbC == BuildC("lsb")

InitMsbC == BuildC("msb")

\* a call of a decoder of src/huff.c on a table its builder returned
CallDecodeC(kind) ==
  /\ ret = "done"
  /\ last = kind
  /\ \E bs \in BitSamples, bl \in CBitLengths, junk \in Junk :
       LET r == IF kind = "lsb" THEN huffc_decode_lsb(table, bs, bl, junk)
                ELSE huffc_decode_msb(table, bs, bl, junk)
       IN  /\ bitstream' = bs
           /\ bit_length' = bl
           /\ sym' = r.sym
           /\ used' = r.used
  /\ last' = "decode_" \o kind
  /\ UNCHANGED <<revVars, tableVars, value, sessionVars, readVars>>

DecodeLsbC == CallDecodeC("lsb")

DecodeMsbC == CallDecodeC("msb")

NextC ==
  \/ InitLsbC
  \/ InitMsbC
  \/ DecodeLsbC
  \/ DecodeMsbC

SpecC == InitC /\ [][NextC]_vars

-----------------------------------------------------------------------------
(* The state machine of the bit readers                                     *)

\* the bits of a returned word the caller may use: its low nb bits
ValidBits(w, nb) == SubSeq(w, 1, IF nb < Len(w) THEN nb ELSE Len(w))

\* the number of bytes of buf (the end pointer, as an index)
End == Cardinality(DOMAIN buf)

\* the caller's cursor as a bit position in the buffer
Cursor(pp, bo) == 8 * pp + (bo % 8)

InitRead ==
  /\ buf \in Buffers
  /\ p \in 0..Cardinality(DOMAIN buf)
  /\ bit_offset \in 0..7
  /\ nbits = 0
  /\ word = <<>>
  /\ from = [p |-> p, bit_offset |-> bit_offset]
  /\ origin = Cursor(p, bit_offset)
  /\ got = <<>>
  /\ loaded = 0
  /\ last = "new"
  /\ NoTable
  /\ NoCall
  /\ NoSession
  /\ NoRev

\* a call of huff_read(&p, &bit_offset, &nbits, end) of src/huff.c
Read ==
  /\ last \in {"new", "read", "advance"}
  /\ LET r == huff_read(buf, End, p, bit_offset) IN
       /\ word' = r.word
       /\ nbits' = r.nbits
       /\ p' = r.p
       /\ bit_offset' = r.bit_offset
       /\ got' = got \o ValidBits(r.word, r.nbits)
       /\ loaded' = r.hi
  /\ from' = [p |-> p, bit_offset |-> bit_offset]
  /\ last' = "read"
  /\ UNCHANGED <<revVars, buf, origin, tableVars, callVars, sessionVars>>

\* a call of huff_read_scalar(&p, &bits, end) of include/huff/read.h, which
\* keeps a byte cursor only
ReadScalar ==
  /\ last \in {"new", "read_scalar"}
  /\ bit_offset = 0
  /\ LET r == huff_read_scalar(buf, End, p, bit_offset) IN
       /\ word' = r.word
       /\ nbits' = r.nbits
       /\ p' = r.p
       /\ bit_offset' = r.bit_offset
       /\ got' = got \o ValidBits(r.word, r.nbits)
       /\ loaded' = r.hi
  /\ from' = [p |-> p, bit_offset |-> bit_offset]
  /\ last' = "read_scalar"
  /\ UNCHANGED <<revVars, buf, origin, tableVars, callVars, sessionVars>>

\* a call of huff_read2(stream, &bit_offset, &nbits, stream_size) of
\* src/huff.c on the stream that starts at buf[p]
Read2 ==
  /\ last \in {"new", "read2", "advance2"}
  /\ LET r == huff_read2(buf, p, End - p, bit_offset) IN
       /\ word' = r.word
       /\ nbits' = r.nbits
       /\ p' = r.p
       /\ bit_offset' = r.bit_offset
       /\ got' = got \o ValidBits(r.word, r.nbits)
       /\ loaded' = r.hi
  /\ from' = [p |-> p, bit_offset |-> bit_offset]
  /\ last' = "read2"
  /\ UNCHANGED <<revVars, buf, origin, tableVars, callVars, sessionVars>>

\* the caller moves its cursor forward by the `used` a decode call returned:
\* the (byte pointer, bit_offset) pair of huff_read, or the bit_offset of
\* huff_read2
Advance ==
  /\ last \in {"read", "advance", "read2", "advance2"}
  /\ \E u \in UsedSamples :
       IF last \in {"read", "advance"}
       THEN /\ p < End /\ bit_offset <= 8 * End
            /\ p' = p + (((bit_offset % 8) + u) \div 8)
            /\ bit_offset' = bit_offset + u
            /\ origin' = Cursor(p', bit_offset')
            /\ last' = "advance"
       ELSE /\ bit_offset <= 8 * (End - p)
            /\ p' = p
            /\ bit_offset' = bit_offset + u
            /\ origin' = 8 * p + bit_offset'
            /\ last' = "advance2"
  /\ from' = [p |-> p, bit_offset |-> bit_offset]
  /\ got' = <<>>
  /\ UNCHANGED <<revVars, buf, nbits, word, loaded, tableVars, callVars, sessionVars>>

\* a call of one of the vector readers of include/huff/read.h; the bytes
\* behind the buffer hold mem
ReadVec(kind) ==
  /\ last \in {"new", kind}
  /\ bit_offset = 0
  /\ \E mem \in FillBytes :
       LET r == CASE kind = "read_sse"  -> huff_read_sse(buf, End, p, bit_offset, mem)
                  [] kind = "read_avx2" -> huff_read_avx2(buf, End, p, bit_offset, mem)
                  [] kind = "read_neon" -> huff_read_neon(buf, End, p, bit_offset, mem)
       IN
       /\ word' = r.word
       /\ nbits' = r.nbits
       /\ p' = r.p
       /\ bit_offset' = r.bit_offset
       /\ got' = got \o ValidBits(r.word, r.nbits)
       /\ loaded' = r.hi
  /\ from' = [p |-> p, bit_offset |-> bit_offset]
  /\ last' = kind
  /\ UNCHANGED <<revVars, buf, origin, tableVars, callVars, sessionVars>>

ReadSse == ReadVec("read_sse")

ReadAvx2 == ReadVec("read_avx2")

ReadNeon == ReadVec("read_neon")

NextRead ==
  \/ Read
  \/ ReadScalar
  \/ Read2
  \/ Advance
  \/ ReadSse
  \/ ReadAvx2
  \/ ReadNeon

SpecRead == InitRead /\ [][NextRead]_vars

-----------------------------------------------------------------------------
(* The state machine of the bit reversals: huff_rev_bits of src/huff.c and  *)
(* huff_rev8, huff_rev8full of include/huff/rev.h, applied to a value and    *)
(* then to the result                                                       *)

\* calls made in one run
MaxRevCalls == 2

InitRev ==
  /\ rev_path \in RevPaths
  /\ rev_x \in RevWords \cup RevBytes
  /\ rev_out = rev_x
  /\ rev_hist = <<>>
  /\ last = "new"
  /\ NoTable
  /\ NoCall
  /\ NoSession
  /\ NoReader

\* rev_out = huff_rev_bits(rev_out)
RevBits ==
  /\ Len(rev_x) = WordBits
  /\ Len(rev_hist) < MaxRevCalls
  /\ rev_out' = huff_rev_bits(rev_path, rev_out)
  /\ rev_hist' = Append(rev_hist, [op |-> "rev_bits", len |-> WordBits])
  /\ last' = "rev_bits"
  /\ UNCHANGED <<rev_path, rev_x, tableVars, callVars, sessionVars, readVars>>

\* rev_out = huff_rev8(rev_out, len)
Rev8 ==
  /\ Len(rev_x) = 8
  /\ Len(rev_hist) < MaxRevCalls
  /\ \E len \in 1..8 :
       /\ rev_out' = BitsOfByte(huff_rev8(BitsValue(rev_out), len))
       /\ rev_hist' = Append(rev_hist, [op |-> "rev8", len |-> len])
  /\ last' = "rev8"
  /\ UNCHANGED <<rev_path, rev_x, tableVars, callVars, sessionVars, readVars>>

\* rev_out = huff_rev8full(rev_out)
Rev8Full ==
  /\ Len(rev_x) = 8
  /\ Len(rev_hist) < MaxRevCalls
  /\ rev_out' = BitsOfByte(huff_rev8full(BitsValue(rev_out)))
  /\ rev_hist' = Append(rev_hist, [op |-> "rev8full", len |-> 8])
  /\ last' = "rev8full"
  /\ UNCHANGED <<rev_path, rev_x, tableVars, callVars, sessionVars, readVars>>

NextRev ==
  \/ RevBits
  \/ Rev8
  \/ Rev8Full

SpecRev == InitRev /\ [][NextRev]_vars

-----------------------------------------------------------------------------
(* Properties                                                               *)

Min(a, b) == IF a < b THEN a ELSE b

\* the coded symbols whose codeword is the leading bits of bs (bit 0 first)
Matches(lens, bs) ==
  {i \in CodedSymbols(lens) :
     \A k \in 1..lens[i] : BitAt(bs, k - 1) = CodeBits(lens, i)[k]}

\* the decode calls of a session so far returned the message's symbols, each
\* with its codeword length
SessionExact == \A k \in 1..Len(out) : out[k] = <<msg[k], lengths[msg[k]]>>

\* C1: round trip.  For a length table with Kraft sum exactly 1 (identity
\* symbols), decoding the LSB-first canonical encoding of a message with
\* huff_decode_lsb, shifting by `used` after every call, returns the message's
\* symbols in order, each with used equal to its codeword length.
C1_RoundTrip ==
  (last = "next" /\ KraftComplete(lengths) /\ symbols.null) => SessionExact

\* C2: reference agreement.  For a table built by huff_init_lsb from a
\* Kraft-valid length table (identity symbols) and any bitstream, all of whose
\* bits are valid, huff_decode_lsb returns the (symbol, used) pair of the
\* bit-by-bit tree walk.
C2_ReferenceAgreement ==
  (last = "decode" /\ ValidLengths(lengths) /\ symbols.null
     /\ bit_length = WordBits) =>
     LET r == RefDecode(lengths, bitstream) IN sym = r.sym /\ used = r.used

\* C3: symbol remapping.  When the builder is given a symbols array, a
\* successful decode returns symbols[i] for the input index i whose codeword
\* the bits start with; with NULL it returns i itself.
C3_SymbolRemapping ==
  (last = "decode" /\ ValidLengths(lengths) /\ used # 0) =>
     \A i \in Matches(lengths, bitstream) :
        sym = (IF symbols.null THEN i ELSE symbols.arr[i])

\* C4: build-time structural errors.  huff_init_lsb reports failure for a
\* length table holding a length above HUFF_MAX_CODE_LENGTH and for n above
\* HUFF_MAX_CODES, instead of returning success or storing out of bounds.
C4_BuildRejects ==
  (last = "init" /\ (~FitsMaxLen(lengths) \/ n > HUFF_MAX_CODES)) => ret = "false"

\* C5: decode-time exhaustion.  When the codeword the bitstream starts with is
\* longer than bit_length, huff_decode_lsb returns the failure sentinel with
\* used = 0; a symbol is returned only with used <= bit_length.
C5_Exhaustion ==
  (last = "decode" /\ ValidLengths(lengths)) =>
     /\ used <= bit_length
     /\ (\E i \in Matches(lengths, bitstream) : lengths[i] > bit_length)
           => (sym = HUFF_FAIL /\ used = 0)

\* C6: incomplete and empty tables.  For a length table with Kraft sum below 1
\* (N = 0 and all-zero tables included; identity symbols) huff_init_lsb
\* succeeds; a bitstream that starts with a codeword decodes to that
\* codeword's symbol and length, and a bitstream that starts with no codeword
\* returns the failure sentinel with used = 0.
C6_IncompleteTables ==
  (KraftIncomplete(lengths) /\ symbols.null /\ last \in {"init", "decode"}) =>
     /\ ret = "true"
     /\ last = "decode" =>
          /\ \A i \in Matches(lengths, bitstream) : sym = i /\ used = lengths[i]
          /\ Matches(lengths, bitstream) = {} => (sym = HUFF_FAIL /\ used = 0)

\* an incomplete table with a code longer than the fast table's index, and a
\* decode of it that fell through every length
C6_Witness ==
  /\ last = "decode"
  /\ KraftIncomplete(lengths) /\ symbols.null
  /\ \E i \in DOMAIN lengths : lengths[i] > HUFF_FAST_TABLE_BITS
  /\ Matches(lengths, bitstream) = {}
  /\ sym = HUFF_FAIL /\ used = 0

\* the largest value a successful extended decode can return: a 16-bit base
\* plus extra bits under a 24-bit mask
MaxExtValue == 65535 + (2^24 - 1)

\* a build that stored nothing outside the table
BuiltInBounds == ret = "true" /\ ~InitOutOfBounds(lengths, n)

\* the decoders read nothing outside syms[] and extras[]: what lies behind the
\* arrays does not change any result
ReadsInBounds ==
  \A bs \in BitSamples :
    /\ last = "init" =>
         \A j \in Junk : huff_decode_lsb(table, bs, WordBits, j)
                           = huff_decode_lsb(table, bs, WordBits, 0)
    /\ last = "init_ext" =>
         \A j \in Junk : huff_decode_lsb_ext(table, bs, j)
                           = huff_decode_lsb_ext(table, bs, 0)
    /\ last = "init_extof" =>
         \A j \in Junk : huff_decode_lsb_extof(table, bs, offset, j)
                           = huff_decode_lsb_extof(table, bs, offset, 0)

BuiltInBoundsC(kind) == ret = "done" /\ ~FastOutOfBounds(kind, lengths, n)

\* what the decoders of src/huff.c are documented to return
DecodedOrFailed ==
  \/ sym = HUFF_FAIL /\ used = 0
  \/ \E i \in CodedC(lengths, n) : sym = SymC(symbols, i) /\ used = lengths[i]

\* C8: the exported decoders of src/huff.c.  Every call of huff_decode_lsb or
\* huff_decode_msb on a table built by huff_init_lsb or huff_init_msb returns
\* either a symbol of the table with *used_bits equal to its codeword length,
\* or (uint_fast16_t)-1; an invalid fast entry (len = 0) is never returned as
\* a symbol.
C8_DecodedOrFailed ==
  /\ (last = "decode_lsb" /\ BuiltInBoundsC("lsb")) => DecodedOrFailed
  /\ (last = "decode_msb" /\ BuiltInBoundsC("msb")) => DecodedOrFailed

\* the bits of the buffer from bit position c to its end
StreamFrom(c) ==
  [k \in 1..(8 * End - c) |-> BitAt(buf[(c + k - 1) \div 8], (c + k - 1) % 8)]

\* C9: cursor advance of huff_read (src/huff.c).  Every call moves the cursor
\* (byte pointer and bit_offset mod 8) forward by exactly the nbits it
\* returned, so the chunks of successive calls are consecutive pieces of the
\* buffer's bit sequence from where the caller started, and they are the whole
\* of it once the byte pointer is at end.
C9_CursorAdvance ==
  last = "read" =>
    /\ Cursor(p, bit_offset) = Cursor(from.p, from.bit_offset) + nbits
    /\ got = SubSeq(StreamFrom(origin), 1, Len(got))
    /\ p >= End => got = StreamFrom(origin)

\* C10 as the specification states it: a read with the byte pointer before
\* end returns nbits = min(W, 8*(end - byte_ptr) - bit_in_byte), and a read at
\* end returns nbits = 0.
C10_CountAsStated ==
  last \in {"read", "read_scalar"} =>
    nbits = IF from.p >= End THEN 0
            ELSE Min(WordBits, 8 * (End - from.p) - (from.bit_offset % 8))

\* C10: bit-reader count.  A read with the byte pointer before end returns
\* nbits = 8 * min(sizeof(bitstream_t), end - byte_ptr) - bit_in_byte: the
\* bytes loaded, less the bits of the first byte already consumed.  With one
\* byte left that is 8 - bit_in_byte; with the byte pointer at end the read
\* returns nbits = 0 and leaves the cursor where it was.
C10_Count ==
  last \in {"read", "read_scalar"} =>
    LET b == from.bit_offset % 8 IN
    /\ from.p < End =>
         nbits = 8 * Min(WordBits \div 8, End - from.p) - b
    /\ from.p = End - 1 => nbits = 8 - b
    /\ from.p = End =>
         /\ nbits = 0
         /\ p = from.p /\ bit_offset = from.bit_offset

\* a read in the middle of a byte with more than a word of bytes left: it
\* returns less than a full word
C10_Witness ==
  /\ last = "read"
  /\ End - from.p > WordBits \div 8
  /\ from.bit_offset % 8 # 0
  /\ nbits = WordBits - (from.bit_offset % 8)

\* C11: bit-reader word content.  The word a read returns is the remaining
\* bytes (at most sizeof(bitstream_t) of them) as one little-endian integer,
\* shifted right by bit_in_byte: for every k < nbits, bit k of the word is the
\* buffer bit at position cursor + k, and every bit from nbits on is zero.
C11_WordContent ==
  last \in {"read", "read_scalar"} =>
    LET c == Cursor(from.p, from.bit_offset) IN
    /\ Len(word) = WordBits
    /\ \A k \in 0..(WordBits - 1) :
         word[k + 1] = IF k < nbits
                       THEN BitAt(buf[(c + k) \div 8], (c + k) % 8)
                       ELSE 0

\* a read from the middle of a byte near the end of the buffer: the word has
\* a set bit that came from the second byte loaded, and fewer bits than a word
C11_Witness ==
  /\ last = "read"
  /\ from.bit_offset % 8 # 0
  /\ nbits > 8 /\ nbits < WordBits - 8
  /\ \E k \in (8 - (from.bit_offset % 8))..(nbits - 1) : word[k + 1] = 1

\* C12: cursor invariant over a decode session.  In every state reached by
\* read calls (huff_read, huff_read2) and caller cursor updates by `used`,
\* bit_in_byte is in 0..7 and the absolute cursor position (8 * byte index +
\* bit_in_byte for huff_read, *bit_offset for huff_read2) is not below what it
\* was before the step.
C12_CursorInvariant ==
  /\ (bit_offset % 8) \in 0..7
  /\ last \in {"read", "advance"} =>
       Cursor(p, bit_offset) >= Cursor(from.p, from.bit_offset)
  /\ last \in {"read2", "advance2"} => bit_offset >= from.bit_offset

\* the calls of the readers
ReadCalls == {"read", "read2", "read_scalar", "read_sse", "read_avx2", "read_neon"}

\* C13: no read past end.  No read variant (huff_read_scalar, huff_read_sse,
\* huff_read_avx2, huff_read_neon, huff_read and huff_read2 of src/huff.c)
\* loads a byte at or beyond end: with fewer than sizeof(bitstream_t) bytes
\* left only those bytes are loaded and fewer bits are returned.
C13_NoReadPastEnd ==
  last \in ReadCalls =>
    /\ loaded <= End
    /\ from.p <= End => nbits <= 8 * (End - from.p)

\* C14: the vector readers against the scalar one.  For every buffer, byte
\* pointer and end, huff_read_sse, huff_read_avx2 and huff_read_neon return
\* the word, the bit count and the advanced pointer huff_read_scalar returns,
\* also with fewer than sizeof(bitstream_t) bytes left.
C14_VectorEqualsScalar ==
  last \in {"read_sse", "read_avx2", "read_neon"} =>
    LET r == huff_read_scalar(buf, End, from.p, from.bit_offset) IN
    /\ word = r.word
    /\ nbits = r.nbits
    /\ p = r.p

\* the word whose low byte is b
LowByte(b) == FromBytes([j \in 0..(SIZEOF_BITSTREAM - 1) |-> IF j = 0 THEN b ELSE 0])

\* C15: huff_rev_bits is whole-word bit reversal.  For every bitstream_t
\* value x of width W, bit i of huff_rev_bits(x) is bit W-1-i of x, on every
\* compiled path (the loop, the SSSE3/AVX2 shuffle, the NEON table lookup).
C15_WholeWordReversal ==
  (last = "rev_bits" /\ Len(rev_hist) = 1) =>
    \A i \in 0..(WordBits - 1) : rev_out[i + 1] = rev_x[WordBits - i]

\* C16: bit-reversal laws.  huff_rev_bits(huff_rev_bits(x)) = x for every
\* word; huff_rev8(huff_rev8(b, 8), 8) = b for every byte; and for len in
\* 1..8, huff_rev8(b, len) = huff_rev8full(b) >> (8 - len), the reversal of
\* the low len bits of b, right-aligned.
C16_ReversalLaws ==
  /\ (last = "rev_bits" /\ Len(rev_hist) = 2) => rev_out = rev_x
  /\ (last = "rev8" /\ Len(rev_hist) = 2
        /\ rev_hist[1] = [op |-> "rev8", len |-> 8] /\ rev_hist[2].len = 8) =>
       rev_out = rev_x
  /\ (last = "rev8" /\ Len(rev_hist) = 1) =>
       LET len == rev_hist[1].len IN
       /\ BitsValue(rev_out) = huff_rev8full(BitsValue(rev_x)) \div 2^(8 - len)
       /\ \A k \in 0..7 :
            rev_out[k + 1] = IF k < len THEN rev_x[len - k] ELSE 0

\* C17: the documented example of huff_rev_bits.  For original = 0b10110010
\* the call returns 0b01001101: the reversed 8-bit value in the low 8 bits.
C17_DocExample ==
  (last = "rev_bits" /\ Len(rev_hist) = 1 /\ rev_x = LowByte(178)) =>
    rev_out = LowByte(77)

\* a bitstream argument below 2^31 as the bits of a bitstream_t
WordOfInt(bs) == [k \in 1..WordBits |-> IF k <= 31 THEN BitAt(bs, k - 1) ELSE 0]

\* a bitstream_t as the argument of the decoders of src/huff.c: its low 30
\* bits, plus 2^30 when a higher bit is set.  The decoders read bits 0..15
\* and compare bitstream >> s, s <= 7, with a sentinel below 2^23.
SaturatedArg(w) ==
  BitsValue(SubSeq(w, 1, 30))
    + (IF \E k \in 31..WordBits : w[k] = 1 THEN 2^30 ELSE 0)

\* what huff_decode_msb returns for the reversed bitstream on the table
\* huff_init_msb builds from the lengths and symbols of the state
DualOfMsb(path) ==
  huffc_decode_msb(huffc_init_msb(FreshTableC(0), lengths, symbols, n),
                   SaturatedArg(huff_rev_bits(path, WordOfInt(bitstream))),
                   bit_length, 0)

\* C18: LSB/MSB duality.  For a Kraft-valid length table, any bitstream and
\* bit_length l, huff_decode_msb on the table of huff_init_msb with
\* huff_rev_bits(bits) returns the symbol and used_bits that huff_decode_lsb
\* returns on the table of huff_init_lsb with bits (src/huff.c).
C18_Duality ==
  (last = "decode_lsb" /\ BuiltInBoundsC("lsb") /\ BuiltInBoundsC("msb")
     /\ ValidLengths(lengths)) =>
    \A path \in RevPaths :
       LET r == DualOfMsb(path) IN r.sym = sym /\ r.used = used

\* the (value, used) pair of a decode that ends at symbol s with a codeword of
\* l bits: the base of the symbol's extras entry plus the extras.bits bits
\* that follow the codeword, or (0, l) for a symbol below the offset
ExtResult(s, l) ==
  IF s >= offset
  THEN LET ext == extras[s - offset] IN
       [value |-> ext.base + ((bitstream \div 2^l) % 2^(ext.bits)),
        used  |-> l + ext.bits]
  ELSE [value |-> 0, used |-> l]

\* the extended decode calls; huff_decode_lsb_ext returns the value,
\* huff_decode_lsb_extof returns the symbol and writes *value
ExtDecoded(s, l) ==
  LET r == ExtResult(s, l) IN
  /\ used = r.used
  /\ last = "decode_ext" => sym = r.value
  /\ last = "decode_extof" => sym = s /\ value = r.value

\* the largest table whose fast entries are compared with the canonical code
\* symbol by symbol: the comb tables, one code of every length and one more
SmallAlphabet == HUFF_MAX_CODE_LENGTH + 1

\* C19: extended decode, fast hit.  For a table built by huff_init_lsb_extof
\* (huff_init_lsb_ext is the offset 0 case) and a bitstream whose low 8 bits
\* hit a fast entry of symbol s with codeword length len, huff_decode_lsb_ext
\* and huff_decode_lsb_extof give value = extras[s-offset].base + ((bits >>
\* len) & ((1 << extras[s-offset].bits) - 1)) and used = len +
\* extras[s-offset].bits when s >= offset, and value = 0, used = len when
\* s < offset.  On a Kraft-valid table that entry is the one of the symbol
\* whose codeword (of at most 8 bits) the bitstream starts with.
C19_FastHit ==
  last \in {"decode_ext", "decode_extof"} =>
    /\ LET fe == table.fast[U8(bitstream)] IN
         fe.len # 0 => ExtDecoded(fe.sym, fe.len)
    /\ (ValidLengths(lengths) /\ n <= SmallAlphabet) =>
         \A s \in Matches(lengths, bitstream) :
            lengths[s] <= HUFF_FAST_TABLE_BITS => ExtDecoded(s, lengths[s])

\* the documented case: symbol 265 of the DEFLATE length alphabet (base 11,
\* one extra bit) with its extra bit set decodes to 12, used = 7 + 1
C19_Witness ==
  /\ last = "decode_extof"
  /\ offset = DeflateOffset
  /\ sym = 265 /\ lengths[265] = 7
  /\ extras[265 - offset].base = 11 /\ extras[265 - offset].bits = 1
  /\ value = 12 /\ used = 8

\* C20: extended decode, slow hit.  For a symbol s whose codeword is longer
\* than the fast table's 8 bits, huff_decode_lsb_ext and
\* huff_decode_lsb_extof fetch ext = extras[s - offset] with the offset the
\* table was built with and give value = ext.base + ((bits >> l) &
\* ((1 << ext.bits) - 1)), used = l + ext.bits: what the fast path gives for
\* the same extras entry, whatever the caller's extras array holds and
\* whatever offset the table was built with.
C20_SlowHit ==
  (last \in {"decode_ext", "decode_extof"} /\ ValidLengths(lengths)) =>
    \A s \in Matches(lengths, bitstream) :
       lengths[s] > HUFF_FAST_TABLE_BITS => ExtDecoded(s, lengths[s])

\* a table the builder is documented to accept permissively
OverSubscribed(lens) ==
  /\ FitsMaxLen(lens)
  /\ Cardinality(DOMAIN lens) <= HUFF_MAX_CODES
  /\ KraftSum(lens) > KraftOne

\* the indices of the stores of huff_init_lsb: count[lengths[i]]++ (line
\* 367), sentinels[l] and offsets[l] (lines 375-376), syms[sym_idx[l]++] (line
\* 385), fast[index] with a uint8_t index (lines 395-397, 406)
StoreIndices(lens, cnt) ==
  LET count   == CountLengths(lens, cnt)
      sym_idx == FirstSymIdx(count)
  IN  [ count     |-> {lens[i] : i \in 0..(cnt - 1)},
        sentinels |-> 1..HUFF_MAX_CODE_LENGTH,
        offsets   |-> 1..HUFF_MAX_CODE_LENGTH,
        syms      |-> UNION {sym_idx[l]..(sym_idx[l] + count[l] - 1) :
                               l \in 1..HUFF_MAX_CODE_LENGTH},
        fast      |-> {U8(i) : i \in 0..(HUFF_FAST_TABLE_SIZE - 1)} ]

\* what huff_init_lsb wrote into the table: the fields of its stores
WrittenPart(t, lens, cnt) ==
  [ fast      |-> [i \in 0..(HUFF_FAST_TABLE_SIZE - 1) |->
                     IF t.fast[i].len = 0
                     THEN [len |-> 0, rev |-> t.fast[i].rev]
                     ELSE [len |-> t.fast[i].len, sym |-> t.fast[i].sym]],
    sentinels |-> [l \in 1..HUFF_MAX_CODE_LENGTH |-> t.sentinels[l]],
    offsets   |-> [l \in 1..HUFF_MAX_CODE_LENGTH |-> t.offsets[l]],
    syms      |-> [k \in StoreIndices(lens, cnt).syms |-> t.syms[k]] ]

\* C21: over-subscribed length tables.  For a length table with Kraft sum
\* above 1, every length at most 16 and N at most 288, huff_init_lsb returns
\* success; what it writes does not depend on what the table held before;
\* every store lands inside fast[0..255], syms[0..287], sentinels[0..16],
\* offsets[0..16]; and a later huff_decode_lsb reads syms[] only below 288 and
\* returns a symbol index below N or the failure sentinel with used = 0.
C21_OverSubscribed ==
  OverSubscribed(lengths) =>
    /\ last = "init" =>
         /\ ret = "true"
         /\ \A g \in FillBytes :
              WrittenPart(huff_init_lsb(FreshTable(g), lengths, symbols, n), lengths, n)
                = WrittenPart(table, lengths, n)
         /\ LET st == StoreIndices(lengths, n) IN
              /\ st.count \subseteq 0..HUFF_MAX_CODE_LENGTH
              /\ st.fast \subseteq 0..(HUFF_FAST_TABLE_SIZE - 1)
              /\ st.syms \subseteq 0..(HUFF_MAX_CODES - 1)
              /\ st.sentinels \subseteq 0..HUFF_MAX_CODE_LENGTH
              /\ st.offsets \subseteq 0..HUFF_MAX_CODE_LENGTH
    /\ last = "decode" =>
         /\ \A j \in Junk :
              huff_decode_lsb(table, bitstream, bit_length, j)
                = [sym |-> sym, used |-> used]
         /\ \/ sym \in 0..(n - 1) /\ used \in 1..HUFF_MAX_CODE_LENGTH
            \/ sym = HUFF_FAIL /\ used = 0

\* a decode on an over-subscribed table that went through the slow path and
\* returned a symbol
C21_Witness ==
  /\ last = "decode"
  /\ OverSubscribed(lengths)
  /\ table.fast[U8(bitstream)].len = 0
  /\ used > HUFF_FAST_TABLE_BITS
  /\ sym \in 0..(n - 1)

\* the session of S1: the table of FourTwos, the right-aligned 8-bit window
\* 0b00011011 = 27, every symbol of it decoded
S1Session ==
  /\ last = "next"
  /\ lengths = FourTwos /\ symbols.null
  /\ Len(Encode(lengths, msg)) = 8
  /\ BitsValue(Encode(lengths, msg)) = 27
  /\ Len(out) = Len(msg)

\* sym0 = 00, sym1 = 10, sym2 = 01, sym3 = 11 as fast-table indices: every
\* index whose low two bits are the code holds the symbol with len = 2
S1Codes ==
  \A i \in 0..(HUFF_FAST_TABLE_SIZE - 1) :
     /\ table.fast[i].len = 2
     /\ table.fast[i].sym = (CASE i % 4 = 0 -> 0 [] i % 4 = 2 -> 1
                               [] i % 4 = 1 -> 2 [] i % 4 = 3 -> 3)

\* C22 as the specification states it: the S1 session returns (0,2), (2,2),
\* (1,2), (3,2).
C22_S1AsStated ==
  S1Session => /\ S1Codes
               /\ out = << <<0, 2>>, <<2, 2>>, <<1, 2>>, <<3, 2>> >>

\* C22: scenario S1.  For lengths = [2,2,2,2] without an alphabet the LSB
\* table assigns sym0 = 00, sym1 = 10, sym2 = 01, sym3 = 11, and decoding the
\* right-aligned window 0b00011011 by repeated huff_decode_lsb calls, shifting
\* right by used each time, returns (3,2), (1,2), (2,2), (0,2): the low two
\* bits 11 are decoded first.
C22_S1 ==
  S1Session => /\ S1Codes
               /\ out = << <<3, 2>>, <<1, 2>>, <<2, 2>>, <<0, 2>> >>

\* the S1 session has run to its fourth symbol
C22_Witness ==
  /\ S1Session
  /\ stream = <<>>
  /\ out[1] = <<3, 2>> /\ out[4] = <<0, 2>>

\* the read of scenario S6: huff_read on the buffer [0xAB, 0xCD] from its
\* first byte with bit_in_byte = 5
S6Read ==
  /\ last = "read"
  /\ buf = Arr(<<171, 205>>)
  /\ from.p = 0 /\ from.bit_offset = 5

\* C23 as the specification states it: the low 11 bits of the word are 0x65D
\* (1629) and nbits = 11.
C23_S6AsStated ==
  S6Read => /\ nbits = 11
            /\ BitsValue(SubSeq(word, 1, 11)) = 1629

\* C23: scenario S6.  For the buffer [0xAB, 0xCD] with starting bit_in_byte
\* = 5, read returns nbits = 11 and a word whose low 11 bits equal
\* (0xCDAB >> 5) & 0x7FF, which is 0x66D (1645).
C23_S6 ==
  S6Read => /\ nbits = 11
            /\ BitsValue(SubSeq(word, 1, 11)) = (52651 \div 2^5) % 2^11
            /\ BitsValue(SubSeq(word, 1, 11)) = 1645

\* the S6 read happened and returned the eleven bits up to the buffer's end
C23_Witness ==
  /\ S6Read
  /\ nbits = 11
  /\ p = 1 /\ bit_offset = 16
  /\ BitsValue(word) = 1645

\* the codeword of input index s as the integer its bits form in the stream
\* (first bit sent = bit 0): the bit-reversed canonical code
LsbCode(lens, s) == BitsValue(CodeBits(lens, s))

\* C24: fast-table coverage.  After huff_init_lsb on a Kraft-valid length
\* table (identity symbols): every 8-bit index whose low l bits are the
\* bit-reversed codeword of a symbol of length l <= 8 holds that symbol with
\* len = l; every index with len > 0 has its low len bits equal to the
\* LSB-first codeword of the symbol it holds; every index with len = 0 holds
\* rev = huff_rev8full(index).  For the DEFLATE fixed literal table a stream
\* that starts with seven 0 bits decodes to (256, 7).
C24_FastCoverage ==
  (ValidLengths(lengths) /\ symbols.null) =>
    /\ last = "init" =>
         /\ \A s \in CodedSymbols(lengths) :
              lengths[s] <= HUFF_FAST_TABLE_BITS =>
                LET l == lengths[s]
                    c == LsbCode(lengths, s)
                IN  \A pad \in 0..(2^(HUFF_FAST_TABLE_BITS - l) - 1) :
                       LET fe == table.fast[c + pad * 2^l]
                       IN  fe.len = l /\ fe.sym = s
         /\ \A i \in 0..(HUFF_FAST_TABLE_SIZE - 1) :
              LET fe == table.fast[i] IN
              IF fe.len > 0
              THEN /\ fe.sym \in CodedSymbols(lengths)
                   /\ lengths[fe.sym] = fe.len
                   /\ i % (2^fe.len) = LsbCode(lengths, fe.sym)
              ELSE fe.rev = huff_rev8full(i)
    /\ (last = "decode" /\ lengths = DeflateLens /\ bitstream % 2^7 = 0) =>
         sym = 256 /\ used = 7

\* the DEFLATE fixed literal table, which has fast entries and misses, decoded
\* a stream that starts with seven 0 bits
C24_Witness ==
  /\ last = "decode"
  /\ lengths = DeflateLens /\ symbols.null
  /\ bitstream % 2^7 = 0
  /\ sym = 256 /\ used = 7
  /\ \E i \in 0..(HUFF_FAST_TABLE_SIZE - 1) : table.fast[i].len = 0
  /\ \E i \in 0..(HUFF_FAST_TABLE_SIZE - 1) : table.fast[i].len = HUFF_FAST_TABLE_BITS

\* C25: stored sentinels are exact.  After huff_init_lsb on a Kraft-valid
\* length table, for every length l in 1..16 table->sentinels[l] holds the
\* integer code[l] + count[l] (first canonical code of length l plus the
\* number of codes of that length), not truncated by its 16-bit storage, so
\* every canonical code value of length l is below sentinels[l], also for
\* l = 16 on complete tables.
C25_SentinelsExact ==
  (last = "init" /\ ValidLengths(lengths)) =>
    LET count == CountLengths(lengths, n)
        code  == FirstCode(count)
    IN  /\ \A l \in 1..HUFF_MAX_CODE_LENGTH :
             table.sentinels[l] = code[l] + count[l]
        /\ \A s \in CodedSymbols(lengths) :
             RefCode(lengths, s) < table.sentinels[lengths[s]]

\* the decode calls of the header-only decoders
DecodeCalls == {"decode", "next", "decode_ext", "decode_extof"}

\* the last decode call missed the fast table
FastMissed == table.fast[U8(bitstream)].len = 0

\* the first syms[] slot of the symbols of length l: the number of coded
\* symbols with a shorter codeword
SymIdxStart(lens, l) == Cardinality({i \in CodedSymbols(lens) : lens[i] < l})

\* C26: slow-path index bound.  For a table built from a Kraft-valid length
\* table and any bitstream, whenever the slow path of huff_decode_lsb or of
\* an extended decoder finds code < sentinels[l], the index
\* (uint16_t)(offsets[l] + code) lies in [sym_idx_start(l), sym_idx_start(l) +
\* count[l]): it is below the number of non-zero lengths, and syms[] is read
\* only in its populated part.
C26_SlowIndexBound ==
  (last \in DecodeCalls /\ ValidLengths(lengths) /\ FastMissed) =>
    LET r == SlowOf(table, bitstream) IN
    /\ r.hit <=> sym # HUFF_FAIL
    /\ r.hit =>
         /\ r.idx >= SymIdxStart(lengths, r.l)
         /\ r.idx < SymIdxStart(lengths, r.l) + LengthsIn(lengths, r.l)
         /\ r.idx < Cardinality(CodedSymbols(lengths))
         /\ last \in {"decode", "next"} =>
              (used = r.l /\ sym = table.syms[r.idx])

\* a slow hit at a length whose offsets[] entry wrapped around 16 bits
C26_Witness ==
  /\ last = "decode"
  /\ ValidLengths(lengths)
  /\ FastMissed
  /\ SlowOf(table, bitstream).hit
  /\ used = HUFF_MAX_CODE_LENGTH
  /\ table.offsets[used] + SlowOf(table, bitstream).code > 65535
  /\ sym = table.syms[SlowOf(table, bitstream).idx]

\* the input index a stored symbol stands for
IndexOfSymbol(syms_arg, v) ==
  IF syms_arg.null THEN v
  ELSE IF \E i \in DOMAIN syms_arg.arr : syms_arg.arr[i] = v
       THEN CHOOSE i \in DOMAIN syms_arg.arr : syms_arg.arr[i] = v
       ELSE -1

\* canonical order of a syms[] array: its first K slots (K = the number of
\* non-zero lengths) hold the coded symbols, each once, in ascending order of
\* (codeword length, input index), the symbols of length l in the slots from
\* SymIdxStart(l) on
CanonicalOrder(arr, lens, syms_arg) ==
  LET K  == Cardinality(CodedSymbols(lens))
      at == [k \in 0..(K - 1) |-> IndexOfSymbol(syms_arg, arr[k])]
  IN  /\ DOMAIN at = 0..(K - 1)
      /\ \A k \in 0..(K - 1) : at[k] \in CodedSymbols(lens)
      /\ {at[k] : k \in 0..(K - 1)} = CodedSymbols(lens)
      /\ \A k \in 0..(K - 2) :
            \/ lens[at[k]] < lens[at[k + 1]]
            \/ lens[at[k]] = lens[at[k + 1]] /\ at[k] < at[k + 1]
      /\ \A k \in 0..(K - 1) :
            LET l == lens[at[k]]
            IN  k \in SymIdxStart(lens, l)..(SymIdxStart(lens, l) + LengthsIn(lens, l) - 1)

\* C27: canonical symbol order.  After a build, syms[0..K) (K = the number of
\* non-zero lengths) holds exactly the coded symbols, each once, grouped by
\* ascending codeword length and, within a length, by ascending input index;
\* the symbols of length l occupy the contiguous range that starts at
\* count[1] + .. + count[l-1].  Checked for huff_init_lsb of lsb.h (identity
\* symbols) and for huff_init_lsb of src/huff.c on the same arguments (there
\* for the alphabets of at most SessionAlphabet symbols).
C27_CanonicalOrder ==
  (last = "init" /\ ValidLengths(lengths)) =>
    /\ symbols.null => CanonicalOrder(table.syms, lengths, symbols)
    /\ n <= SessionAlphabet =>
         CanonicalOrder(huffc_init_lsb(FreshTableC(0), lengths, symbols, n).syms.arr,
                        lengths, symbols)

\* a build whose input order is not the canonical order: a longer code comes
\* before a shorter one, and a zero length is skipped
C27_Witness ==
  /\ last = "init"
  /\ ValidLengths(lengths) /\ symbols.null
  /\ \E i, j \in CodedSymbols(lengths) : i < j /\ lengths[i] > lengths[j]
  /\ \E i \in DOMAIN lengths : lengths[i] = 0
  /\ table.syms[0] > table.syms[1]

\* the fast-table indices of the MSB-first codeword c of l bits:
\* c << (FAST_BITS - l) and the 2^(FAST_BITS - l) - 1 indices after it
MsbRange(c, l) ==
  (c * 2^(FAST_TABLE_BITS - l))..(c * 2^(FAST_TABLE_BITS - l) + 2^(FAST_TABLE_BITS - l) - 1)

\* C28: MSB table construction.  huff_init_msb assigns the canonical
\* MSB-first codes (code[1] = 0, code[l] = (code[l-1] + count[l-1]) << 1).
\* For every symbol of length l <= FAST_BITS with canonical code c it fills
\* exactly the fast-table indices c << (FAST_BITS - l) up to that plus
\* 2^(FAST_BITS - l) - 1 with the symbol and its length, so the entries of
\* different symbols do not overlap on a Kraft-valid table; and it stores
\* sentinel[l] = (code[l] + count[l]) << (MAX_CODE_LENGTH - l).
C28_MsbConstruction ==
  (last = "msb" /\ BuiltInBoundsC("msb") /\ ValidLengths(lengths)) =>
    LET count == CountLengths(lengths, n)
        code  == FirstCode(count)
        short == {i \in CodedSymbols(lengths) : lengths[i] <= FAST_TABLE_BITS}
    IN  /\ \A i \in short : \A x \in MsbRange(RefCode(lengths, i), lengths[i]) :
             table.fast_table[x] = [sym |-> Sym9(SymC(symbols, i)), len |-> lengths[i]]
        /\ \A x \in 0..(FAST_TABLE_SIZE - 1) :
             table.fast_table[x].len # 0 =>
               \E i \in short : x \in MsbRange(RefCode(lengths, i), lengths[i])
        /\ \A l \in 1..MAX_CODE_LENGTH :
             table.sentinel_bits[l] = (code[l] + count[l]) * 2^(MAX_CODE_LENGTH - l)

\* the table a freshly allocated object (holding the byte g) gets from the
\* builder call that made the table of the state
BuiltFresh(g) ==
  CASE last = "init" ->
         huff_init_lsb(FreshTable(g), lengths, symbols, n)
    [] last = "init_ext" ->
         huff_init_lsb_ext(FreshTableExt(g), lengths, symbols, extras, n)
    [] last = "init_extof" ->
         huff_init_lsb_extof(FreshTableExt(g), lengths, symbols, extras, offset, n)

\* the decoders return on table t what they return on table u, for every bit
\* sample
SameDecodes(t, u) ==
  \A bs \in BitSamples \cup ExtSamples :
    /\ last = "init" =>
         \A bl \in BitLengthSamples :
            huff_decode_lsb(t, bs, bl, 0) = huff_decode_lsb(u, bs, bl, 0)
    /\ last \in {"init_ext", "init_extof"} =>
         huff_decode_lsb_ext(t, bs, 0) = huff_decode_lsb_ext(u, bs, 0)
    /\ last = "init_extof" =>
         huff_decode_lsb_extof(t, bs, offset, 0) = huff_decode_lsb_extof(u, bs, offset, 0)

\* C29: re-initialisation leaves no residue.  After a sequence of builder
\* calls (huff_init_lsb, or huff_init_lsb_ext / huff_init_lsb_extof on an
\* extended table) on one table object with valid length tables, every decode
\* of every bitstream returns what it returns on a freshly allocated table
\* built with the last length table only: nothing an earlier build left in
\* the fast entries, sentinels, offsets or syms[] is observable.
C29_NoResidue ==
  (last \in {"init", "init_ext", "init_extof"} /\ builds > 1
     /\ ValidLengths(lengths)) =>
    \A g \in FillBytes : SameDecodes(table, BuiltFresh(g))

\* a second build on a table object that still holds what the first build
\* stored: a syms[] slot of the earlier table behind the slots of the new one
C29_Witness ==
  /\ last = "init"
  /\ builds = MaxBuilds
  /\ ValidLengths(lengths)
  /\ table.fast[HUFF_FAST_TABLE_SIZE - 1].len = 0
  /\ \E k \in 0..(HUFF_MAX_CODES - 1) :
       k >= Cardinality(CodedSymbols(lengths)) /\ table.syms[k] = k
  /\ \A g \in FillBytes : table.syms # BuiltFresh(g).syms

\* the last extended decode call read nothing behind syms[] or the caller's
\* extras array: what lies there does not change what the call returns
ExtCallInBounds ==
  \A j \in Junk :
    /\ last = "decode_ext" =>
         huff_decode_lsb_ext(table, bitstream, j) = huff_decode_lsb_ext(table, bitstream, 0)
    /\ last = "decode_extof" =>
         huff_decode_lsb_extof(table, bitstream, offset, j)
           = huff_decode_lsb_extof(table, bitstream, offset, 0)

\* the bits a session's calls used so far
RECURSIVE UsedSum(_)
UsedSum(o) == IF o = <<>> THEN 0 ELSE Head(o)[2] + UsedSum(Tail(o))

\* the decode calls of a session that returned a symbol
Successes == {k \in 1..Len(out) : out[k][1] # HUFF_FAIL}

\* C30: decode progress and termination.  A successful huff_decode_lsb call
\* returns 1 <= used <= 16, and a successful huff_decode_lsb_ext or
\* huff_decode_lsb_extof call (one that read inside the table and the extras
\* array) returns used >= 1.  In a session that advances its cursor by used
\* after every success and stops on failure or at the end of the buffer,
\* every success moved the cursor forward by at least one bit and by exactly
\* its used: the bits left plus the number of successes never exceed the
\* bits of the buffer, so the session ends after at most that many calls.
C30_Progress ==
  /\ (last \in {"decode", "next"} /\ sym # HUFF_FAIL) =>
       used \in 1..HUFF_MAX_CODE_LENGTH
  /\ (last \in {"decode_ext", "decode_extof"} /\ sym # HUFF_FAIL
        /\ ExtCallInBounds) => used >= 1
  /\ last = "next" =>
       LET total == Len(Encode(lengths, msg)) IN
       /\ \A k \in Successes : out[k][2] >= 1
       /\ Len(stream) + Cardinality(Successes) <= total
       /\ Len(out) <= total + 1
       /\ Len(stream) = (IF total > UsedSum(out) THEN total - UsedSum(out) ELSE 0)
       /\ \A k \in 1..(Len(out) - 1) : k \in Successes

\* a session that ran to the end of its buffer: every call succeeded, the
\* last one through the slow path
C30_Witness ==
  /\ last = "next"
  /\ Len(out) = Len(msg) /\ Len(out) > 1
  /\ Successes = 1..Len(out)
  /\ stream = <<>>
  /\ used > HUFF_FAST_TABLE_BITS

====
